---- MODULE Spec2Model ----
(***************************************************************************)
(* Model of the mcp-wrapper security pipeline: SecuritySanitizer,          *)
(* InputValidator, SecurityPolicyManager, renderSecureTemplate, the        *)
(* command executors of mcp/tools and the CallTool handler of mcp/server.  *)
(*                                                                         *)
(* A JavaScript string is a sequence of one-character strings, so that     *)
(* stripping, quoting, escaping and pattern matching are computed and not  *)
(* assumed.  os.platform() is "linux": path is path.posix and quoting is   *)
(* the Unix branch of shellQuote.                                          *)
(***************************************************************************)
EXTENDS Integers, Sequences, FiniteSets, TLC

(***************************************************************************)
(* JavaScript string primitives                                            *)
(***************************************************************************)
LowerLetters == <<"a","b","c","d","e","f","g","h","i","j","k","l","m",
                  "n","o","p","q","r","s","t","u","v","w","x","y","z">>
UpperLetters == <<"A","B","C","D","E","F","G","H","I","J","K","L","M",
                  "N","O","P","Q","R","S","T","U","V","W","X","Y","Z">>
DigitChars == {"0","1","2","3","4","5","6","7","8","9"}
LetterChars == {LowerLetters[i] : i \in DOMAIN LowerLetters}
                 \cup {UpperLetters[i] : i \in DOMAIN UpperLetters}
\* the character U+0060 (a string literal cannot hold it)
Backtick == "BACKTICK"
\* \s of a JavaScript regular expression, as far as the inputs of the model go
WhitespaceChars == {" ", "\n", "\r", "\t"}

toLowerCaseChar(c) ==
  IF \E i \in DOMAIN UpperLetters : UpperLetters[i] = c
  THEN LowerLetters[CHOOSE i \in DOMAIN UpperLetters : UpperLetters[i] = c]
  ELSE c
toLowerCase(s) == [i \in 1..Len(s) |-> toLowerCaseChar(s[i])]

\* String.prototype.includes / startsWith
Includes(s, sub) ==
  \E i \in 0..(Len(s) - Len(sub)) : SubSeq(s, i + 1, i + Len(sub)) = sub
StartsWith(s, p) == Len(p) <= Len(s) /\ SubSeq(s, 1, Len(p)) = p

\* s.replace(/[chars]/g, '')
StripChars(s, chars) == SelectSeq(s, LAMBDA c : c \notin chars)
\* s.replace(/c/g, r) for a single character c and a string r
RECURSIVE ReplaceChar(_, _, _)
ReplaceChar(s, c, r) ==
  IF s = <<>> THEN <<>>
  ELSE (IF s[1] = c THEN r ELSE <<s[1]>>) \o ReplaceChar(Tail(s), c, r)
\* s.replace(/sub/g, '') for a literal sub: one left-to-right pass, matches do
\* not overlap and the result is not scanned again
RECURSIVE RemoveSub(_, _)
RemoveSub(s, sub) ==
  IF Len(s) < Len(sub) THEN s
  ELSE IF SubSeq(s, 1, Len(sub)) = sub
       THEN RemoveSub(SubSeq(s, Len(sub) + 1, Len(s)), sub)
       ELSE <<s[1]>> \o RemoveSub(Tail(s), sub)

\* s.trim()
RECURSIVE TrimStart(_)
TrimStart(s) ==
  IF s # <<>> /\ s[1] \in WhitespaceChars THEN TrimStart(Tail(s)) ELSE s
RECURSIVE TrimEnd(_)
TrimEnd(s) ==
  IF s # <<>> /\ s[Len(s)] \in WhitespaceChars
  THEN TrimEnd(SubSeq(s, 1, Len(s) - 1)) ELSE s
Trim(s) == TrimEnd(TrimStart(s))

\* s.split(/\s+/): the pieces between maximal runs of whitespace (a leading or
\* trailing run leaves an empty piece, ''.split gives [''])
RECURSIVE SplitWs(_, _, _)
SplitWs(s, cur, inWs) ==
  IF s = <<>> THEN <<cur>>
  ELSE IF s[1] \in WhitespaceChars
       THEN (IF inWs THEN SplitWs(Tail(s), cur, TRUE)
             ELSE <<cur>> \o SplitWs(Tail(s), <<>>, TRUE))
       ELSE SplitWs(Tail(s), cur \o <<s[1]>>, FALSE)
SplitWhitespace(s) == SplitWs(s, <<>>, FALSE)

\* s.split(sep) for a one-character separator
RECURSIVE SplitOn(_, _, _)
SplitOn(s, sep, cur) ==
  IF s = <<>> THEN <<cur>>
  ELSE IF s[1] = sep THEN <<cur>> \o SplitOn(Tail(s), sep, <<>>)
       ELSE SplitOn(Tail(s), sep, cur \o <<s[1]>>)

\* parts.join(sep)
RECURSIVE Join(_, _)
Join(parts, sep) ==
  IF parts = <<>> THEN <<>>
  ELSE IF Len(parts) = 1 THEN parts[1]
       ELSE parts[1] \o sep \o Join(Tail(parts), sep)

(***************************************************************************)
(* path.posix.normalize and path.posix.basename, as sanitizeFilePath calls *)
(* them                                                                    *)
(***************************************************************************)
\* normalizeString: empty and "." segments are dropped, ".." removes the
\* segment before it, and stays when there is none and the path is relative
RECURSIVE NormalizeSegments(_, _, _)
NormalizeSegments(segs, res, allowAboveRoot) ==
  IF segs = <<>> THEN res
  ELSE LET g == segs[1] IN
       IF g = <<>> \/ g = <<".">>
       THEN NormalizeSegments(Tail(segs), res, allowAboveRoot)
       ELSE IF g = <<".", ".">>
            THEN IF res # <<>> /\ res[Len(res)] # <<".", ".">>
                 THEN NormalizeSegments(Tail(segs), SubSeq(res, 1, Len(res) - 1),
                                        allowAboveRoot)
                 ELSE IF allowAboveRoot
                      THEN NormalizeSegments(Tail(segs), res \o <<g>>, allowAboveRoot)
                      ELSE NormalizeSegments(Tail(segs), res, allowAboveRoot)
            ELSE NormalizeSegments(Tail(segs), res \o <<g>>, allowAboveRoot)

normalizeJoined(isAbsolute, trailingSeparator, p) ==
  IF p = <<>>
  THEN (IF isAbsolute THEN <<"/">>
        ELSE IF trailingSeparator THEN <<".", "/">> ELSE <<".">>)
  ELSE (IF isAbsolute THEN <<"/">> ELSE <<>>) \o p
       \o (IF trailingSeparator THEN <<"/">> ELSE <<>>)
normalize(path) ==
  IF path = <<>> THEN <<".">>
  ELSE normalizeJoined(path[1] = "/", path[Len(path)] = "/",
         Join(NormalizeSegments(SplitOn(path, "/", <<>>), <<>>, path[1] # "/"),
              <<"/">>))

RECURSIVE StripTrailingSlashes(_)
StripTrailingSlashes(s) ==
  IF s # <<>> /\ s[Len(s)] = "/"
  THEN StripTrailingSlashes(SubSeq(s, 1, Len(s) - 1)) ELSE s
\* the part after the last "/" of the path without its trailing slashes
LastOf(parts) == parts[Len(parts)]
basename(path) == LastOf(SplitOn(StripTrailingSlashes(path), "/", <<>>))

(***************************************************************************)
(* SecuritySanitizer (security/sanitizer.ts)                               *)
(***************************************************************************)
SecurityTypes == {"safe", "filepath", "command", "text", "unsafe"}
currentPlatform == "linux"

\* the character class /[;&|`$(){}[\]]/
DangerousChars == {";", "&", "|", Backtick, "$", "(", ")", "{", "}", "[", "]"}
\* the character class /[a-zA-Z0-9_.-]/
PlainWordChars == LetterChars \cup DigitChars \cup {"_", ".", "-"}

\* a JavaScript value handed to the sanitizer: null/undefined or a string
JsNull == [null |-> TRUE, str |-> <<>>]
JsStr(s) == [null |-> FALSE, str |-> s]

shellQuote(value) ==
  IF value = <<>> THEN <<"'", "'">>
  ELSE IF currentPlatform = "win32"
       THEN IF \E i \in 1..Len(value) : value[i] \in {" ", "\"", "'"}
            THEN <<"\"">> \o ReplaceChar(value, "\"", <<"\"", "\"">>) \o <<"\"">>
            ELSE value
       ELSE IF \E i \in 1..Len(value) : value[i] \notin PlainWordChars
            THEN <<"'">> \o ReplaceChar(value, "'", <<"'", "\"", "'", "\"", "'">>)
                 \o <<"'">>
            ELSE value

\* a result that is unsafe without saying why
sanitizeSafeResultNoWarning(sanitized, quotedOriginal) ==
  [value |-> sanitized, safe |-> sanitized = quotedOriginal, warnings |-> <<>>]

\* the result of sanitizeSafe, from the quoted stripped value and the quoted
\* original value
sanitizeSafeResult(sanitized, quotedOriginal) ==
  [value |-> sanitized, safe |-> sanitized = quotedOriginal,
   warnings |-> IF sanitized # quotedOriginal
                THEN <<"Input sanitized for shell safety">> ELSE <<>>]
\* s.replace(/[chars]/, ''): the first match only
StripFirstChar(s, chars) ==
  IF \E i \in DOMAIN s : s[i] \in chars
  THEN SubSeq(s, 1, (CHOOSE i \in DOMAIN s :
                       s[i] \in chars /\ \A j \in 1..(i - 1) : s[j] \notin chars) - 1)
       \o SubSeq(s, (CHOOSE i \in DOMAIN s :
                       s[i] \in chars /\ \A j \in 1..(i - 1) : s[j] \notin chars) + 1,
                 Len(s))
  ELSE s
\* a sanitizeSafe whose first replace has no g flag
sanitizeSafeFirstOnly(value) ==
  sanitizeSafeResult(
    shellQuote(StripChars(ReplaceChar(StripFirstChar(value, DangerousChars), "\n", <<" ">>),
                          {"\r"})),
    shellQuote(value))

sanitizeSafe(value) ==
  sanitizeSafeResult(
    shellQuote(StripChars(ReplaceChar(StripChars(value, DangerousChars), "\n", <<" ">>),
                          {"\r"})),
    shellQuote(value))

sanitizeUnsafe(value, allowUnsafe) ==
  IF ~allowUnsafe
  THEN [value |-> sanitizeSafe(value).value, safe |-> FALSE,
        warnings |-> <<"Unsafe sanitization not allowed, falling back to safe mode">>]
  ELSE [value |-> value, safe |-> FALSE,
        warnings |-> <<"Using unsafe mode - no sanitization applied">>]

\* sanitizeFilePath after the absolute-path check: quote and return
sanitizeFilePathResult(sanitized, warnings) ==
  [value |-> shellQuote(sanitized), safe |-> warnings = <<>>, warnings |-> warnings]
\* sanitizeFilePath from the absolute-path check on
sanitizeFilePathAbsolute(sanitized, warnings) ==
  IF StartsWith(sanitized, <<"/">>)
     \/ (Len(sanitized) >= 2 /\ sanitized[1] \in LetterChars /\ sanitized[2] = ":")
  THEN sanitizeFilePathResult(basename(sanitized),
         warnings \o <<"Absolute path detected, using basename only">>)
  ELSE sanitizeFilePathResult(sanitized, warnings)
\* sanitizeFilePath from the traversal check on; normalize does not throw on a
\* string, so the catch branch is never taken
sanitizeFilePathTraversal(sanitized) ==
  IF Includes(sanitized, <<".", ".">>)
  THEN sanitizeFilePathAbsolute(basename(sanitized),
         <<"Path traversal attempt detected and blocked">>)
  ELSE sanitizeFilePathAbsolute(sanitized, <<>>)
sanitizeFilePath(value) ==
  sanitizeFilePathTraversal(normalize(StripChars(value, DangerousChars)))

dangerousCommands ==
  { <<"r","m">>, <<"d","e","l">>, <<"r","m","d","i","r">>, <<"f","o","r","m","a","t">>, <<"m","k","f","s">>,
    <<"d","d">>, <<"f","d","i","s","k">>, <<"c","h","m","o","d">>, <<"c","h","o","w","n">>, <<"s","u","d","o">>,
    <<"s","u">>, <<"p","a","s","s","w","d">>, <<"e","v","a","l">>, <<"e","x","e","c">>, <<"s","o","u","r","c","e">> }

\* the arguments of a command, each stripped and quoted
sanitizeArgs(args) ==
  [i \in 1..Len(args) |-> shellQuote(StripChars(args[i], DangerousChars))]
\* sanitizeCommand from the split command; the warnings that name the command
\* stand for the ones carrying its name
sanitizeCommandParts(commandParts, allowedCommands) ==
  IF commandParts[1] = <<>>
  THEN [value |-> <<>>, safe |-> FALSE, warnings |-> <<"Empty command not allowed">>]
  ELSE IF allowedCommands # {} /\ commandParts[1] \notin allowedCommands
       THEN [value |-> <<>>, safe |-> FALSE,
             warnings |-> <<"Command not in allowed list">>]
       ELSE IF toLowerCase(commandParts[1]) \in dangerousCommands
            THEN [value |-> <<>>, safe |-> FALSE,
                  warnings |-> <<"Potentially dangerous command detected">>]
            ELSE [value |-> Join(<<commandParts[1]>> \o sanitizeArgs(Tail(commandParts)),
                                 <<" ">>),
                  safe |-> TRUE, warnings |-> <<>>]
sanitizeCommand(value, allowedCommands) ==
  sanitizeCommandParts(SplitWhitespace(Trim(value)), allowedCommands)

sanitizeTextResult(sanitized, quotedOriginal) ==
  [value |-> sanitized, safe |-> sanitized = quotedOriginal,
   warnings |-> IF sanitized # quotedOriginal
                THEN <<"Dangerous characters removed from text input">> ELSE <<>>]
\* a text sanitizer that quotes the value and removes nothing
sanitizeTextUnstripped(value) ==
  sanitizeTextResult(shellQuote(value), shellQuote(value))
sanitizeText(value) ==
  sanitizeTextResult(
    shellQuote(StripChars(
      RemoveSub(RemoveSub(StripChars(value, {";", "&", "|", Backtick}), <<"$", "(">>),
                <<"$", "{">>),
      {Backtick})),
    shellQuote(value))

\* sanitizer is the constructed SecuritySanitizer: [allowedCommands, allowUnsafe]
sanitize(sanitizer, value, securityType) ==
  IF value.null THEN [value |-> <<>>, safe |-> TRUE, warnings |-> <<>>]
  ELSE CASE securityType = "unsafe" -> sanitizeUnsafe(value.str, sanitizer.allowUnsafe)
         [] securityType = "filepath" -> sanitizeFilePath(value.str)
         [] securityType = "command" ->
              sanitizeCommand(value.str, sanitizer.allowedCommands)
         [] securityType = "text" -> sanitizeText(value.str)
         [] OTHER -> sanitizeSafe(value.str)

(***************************************************************************)
(* SecurityPolicyManager (security/policies.ts)                            *)
(***************************************************************************)
SecurityLevels == {"strict", "moderate", "permissive"}

STRICT_TIMEOUT == 10
STRICT_MAX_INPUT == 1000
MODERATE_TIMEOUT == 30
MODERATE_MAX_INPUT == 5000
PERMISSIVE_TIMEOUT == 60
PERMISSIVE_MAX_INPUT == 10000

SECURITY_POLICIES(level) ==
  CASE level = "strict" ->
         [level |-> "strict", defaultSecurityType |-> "safe", allowUnsafe |-> FALSE,
          allowedCommands |->
            << <<"e","c","h","o">>, <<"c","a","t">>, <<"l","s">>, <<"p","w","d">>, <<"w","h","o","a","m","i">>, <<"d","a","t","e">>, <<"b","c">>,
               <<"g","r","e","p">>, <<"a","w","k">>, <<"s","e","d">>, <<"s","o","r","t">>, <<"u","n","i","q">>, <<"w","c">>, <<"h","e","a","d">>, <<"t","a","i","l">> >>,
          blockedPatterns |->
            << <<"\\","|">>, <<"&","&">>, <<"|","|">>, <<";">>, <<Backtick>>, <<"$","(">>, <<"$","{">>,
               <<"r","m"," ">>, <<"d","e","l"," ">>, <<"f","o","r","m","a","t">>, <<"m","k","f","s">>, <<"d","d"," ">>,
               <<"c","h","m","o","d">>, <<"c","h","o","w","n">>, <<"s","u","d","o">>, <<"s","u"," ">>, <<"p","a","s","s","w","d">> >>,
          allowedPaths |-> << <<".","/">> >>,
          maxExecutionTimeout |-> STRICT_TIMEOUT, maxInputLength |-> STRICT_MAX_INPUT,
          auditLogging |-> TRUE, failOnWarnings |-> TRUE]
    [] level = "moderate" ->
         [level |-> "moderate", defaultSecurityType |-> "safe", allowUnsafe |-> FALSE,
          allowedCommands |->
            << <<"e","c","h","o">>, <<"c","a","t">>, <<"l","s">>, <<"p","w","d">>, <<"w","h","o","a","m","i">>, <<"d","a","t","e">>, <<"b","c">>,
               <<"g","r","e","p">>, <<"a","w","k">>, <<"s","e","d">>, <<"s","o","r","t">>, <<"u","n","i","q">>, <<"w","c">>, <<"h","e","a","d">>, <<"t","a","i","l">>,
               <<"f","i","n","d">>, <<"w","h","i","c","h">>, <<"f","i","l","e">>, <<"s","t","a","t">>, <<"d","f">>, <<"d","u">>, <<"p","s">>,
               <<"g","i","t">>, <<"c","u","r","l">>, <<"w","g","e","t">>, <<"p","i","n","g">>, <<"n","s","l","o","o","k","u","p">> >>,
          blockedPatterns |->
            << <<"r","m"," ","-","r","f">>, <<"d","e","l"," ","/","s">>, <<"f","o","r","m","a","t">>, <<"m","k","f","s">>, <<"d","d"," ","i","f","=">>,
               <<"s","u","d","o"," ","r","m">>, <<"s","u"," ","-">>, <<"p","a","s","s","w","d">> >>,
          allowedPaths |-> << <<".","/">>, <<"/","t","m","p","/">>, <<"/","h","o","m","e","/">>, <<"/","U","s","e","r","s","/">> >>,
          maxExecutionTimeout |-> MODERATE_TIMEOUT,
          maxInputLength |-> MODERATE_MAX_INPUT,
          auditLogging |-> TRUE, failOnWarnings |-> FALSE]
    [] level = "permissive" ->
         [level |-> "permissive", defaultSecurityType |-> "safe", allowUnsafe |-> TRUE,
          allowedCommands |-> << >>,
          blockedPatterns |->
            << <<"r","m"," ","-","r","f"," ","/">>, <<"d","e","l"," ","/","s"," ","/","q"," ","C",":","\\">>, <<"f","o","r","m","a","t"," ","C",":">>,
               <<"m","k","f","s">>, <<"d","d"," ","i","f","=","/","d","e","v","/","z","e","r","o">> >>,
          allowedPaths |-> << >>,
          maxExecutionTimeout |-> PERMISSIVE_TIMEOUT,
          maxInputLength |-> PERMISSIVE_MAX_INPUT,
          auditLogging |-> FALSE, failOnWarnings |-> FALSE]

\* { ...base, ...overrides }: every field of overrides replaces that of base
ObjectSpread(base, overrides) ==
  [f \in DOMAIN base |-> IF f \in DOMAIN overrides THEN overrides[f] ELSE base[f]]

\* new SecurityPolicyManager(level, customPolicy): the manager's policy
NewSecurityPolicyManager(level, customPolicy) ==
  ObjectSpread(SECURITY_POLICIES(level), customPolicy)

(* new RegExp(pattern, 'i') for the pattern language of the blocked-pattern   *)
(* lists in use (the built-in ones and those of the test suites): literal     *)
(* characters, an escaped character "\c", the alternation "|" and the         *)
(* assertion "$".  An unclosed "(" or "[", a ")" without its "(" and a        *)
(* trailing "\" make the constructor throw.  A "{" that starts no quantifier   *)
(* is a literal.  An alternative is a sequence of items, each a character to  *)
(* match or the end-of-input assertion.                                       *)
RECURSIVE RegExpParse(_, _, _)
RegExpParse(p, cur, alts) ==
  IF p = <<>> THEN [valid |-> TRUE, alts |-> alts \o <<cur>>]
  ELSE CASE p[1] = "\\" ->
              IF Len(p) = 1 THEN [valid |-> FALSE, alts |-> <<>>]
              ELSE RegExpParse(SubSeq(p, 3, Len(p)),
                               cur \o <<[kind |-> "char", c |-> p[2]]>>, alts)
         [] p[1] = "|" -> RegExpParse(Tail(p), <<>>, alts \o <<cur>>)
         [] p[1] = "$" -> RegExpParse(Tail(p), cur \o <<[kind |-> "end", c |-> "$"]>>, alts)
         [] p[1] = "(" ->
              IF \E i \in 2..Len(p) : p[i] = ")"
              THEN RegExpParse(Tail(p), cur, alts)
              ELSE [valid |-> FALSE, alts |-> <<>>]
         [] p[1] = "[" ->
              IF \E i \in 2..Len(p) : p[i] = "]"
              THEN RegExpParse(Tail(p), cur, alts)
              ELSE [valid |-> FALSE, alts |-> <<>>]
         [] p[1] = ")" -> [valid |-> FALSE, alts |-> <<>>]
         [] OTHER -> RegExpParse(Tail(p), cur \o <<[kind |-> "char", c |-> p[1]]>>, alts)
RegExpCompile(pattern) == RegExpParse(pattern, <<>>, <<>>)

\* the items match input from position pos on (pos is one past the characters
\* consumed so far)
RECURSIVE RegExpMatchAt(_, _, _)
RegExpMatchAt(items, input, pos) ==
  IF items = <<>> THEN TRUE
  ELSE IF items[1].kind = "end"
       THEN pos = Len(input) + 1 /\ RegExpMatchAt(Tail(items), input, pos)
       ELSE pos <= Len(input)
            /\ toLowerCaseChar(input[pos]) = toLowerCaseChar(items[1].c)
            /\ RegExpMatchAt(Tail(items), input, pos + 1)
\* regex.test(input): some alternative matches at some position
RegExpTest(regex, input) ==
  \E a \in DOMAIN regex.alts :
    \E pos \in 1..(Len(input) + 1) : RegExpMatchAt(regex.alts[a], input, pos)

\* one entry of blockedPatterns against input: the regular expression, or the
\* substring test when the pattern does not compile
patternMatchesCompiled(regex, pattern, input) ==
  IF regex.valid THEN RegExpTest(regex, input)
  ELSE Includes(toLowerCase(input), toLowerCase(pattern))
patternMatches(pattern, input) ==
  patternMatchesCompiled(RegExpCompile(pattern), pattern, input)

\* a plain substring test of every entry
isPatternBlockedCaseSensitive(policy, input) ==
  \E i \in DOMAIN policy.blockedPatterns : Includes(input, policy.blockedPatterns[i])

isPatternBlocked(policy, input) ==
  \E i \in DOMAIN policy.blockedPatterns :
    patternMatches(policy.blockedPatterns[i], input)

\* the allow-list test alone
isCommandAllowedListOnly(policy, command) ==
  Len(policy.allowedCommands) = 0
    \/ \E i \in DOMAIN policy.allowedCommands : policy.allowedCommands[i] = command

isCommandAllowed(policy, command) ==
  IF Len(policy.allowedCommands) = 0 THEN ~isPatternBlocked(policy, command)
  ELSE (\E i \in DOMAIN policy.allowedCommands : policy.allowedCommands[i] = command)
       /\ ~isPatternBlocked(policy, command)

isPathAllowed(policy, path) ==
  IF Len(policy.allowedPaths) = 0 THEN TRUE
  ELSE \E i \in DOMAIN policy.allowedPaths : StartsWith(path, policy.allowedPaths[i])

validateInputLength(policy, input) == Len(input) <= policy.maxInputLength
getMaxExecutionTimeout(policy) == policy.maxExecutionTimeout * 1000
shouldFailOnWarnings(policy) == policy.failOnWarnings
isAuditLoggingEnabled(policy) == policy.auditLogging
isUnsafeAllowed(policy) == policy.allowUnsafe
\* every security type passes
validateSecurityTypeAny(policy, securityType) == TRUE

validateSecurityType(policy, securityType) ==
  ~(securityType = "unsafe" /\ ~policy.allowUnsafe)

\* new SecuritySanitizer(allowedCommands, allowUnsafe): the array becomes a Set
NewSecuritySanitizer(allowedCommands, allowUnsafe) ==
  [allowedCommands |-> {allowedCommands[i] : i \in DOMAIN allowedCommands},
   allowUnsafe |-> allowUnsafe]

(***************************************************************************)
(* InputValidator (security/validator.ts)                                  *)
(* An object is a function from its property names to its values.          *)
(***************************************************************************)
NoRuleValidationResult(sanitizationResult) ==
  [valid |-> sanitizationResult.safe,
   sanitizedValue |-> sanitizationResult.value,
   errors |-> <<>>,
   warnings |-> sanitizationResult.warnings]

\* validateProperty from the sanitizer's result on
validatePropertyResult(sanitizationResult, securityType) ==
  LET errors ==
        IF ~sanitizationResult.safe /\ securityType # "unsafe"
        THEN IF sanitizationResult.value = <<>> /\ sanitizationResult.warnings = <<>>
             THEN <<"Input failed security validation">>
             ELSE IF sanitizationResult.warnings = <<>>
                  THEN <<"Input failed security validation">>
                  ELSE <<>>
        ELSE <<>>
  IN [valid |-> errors = <<>>,
      sanitizedValue |-> sanitizationResult.value,
      errors |-> errors,
      warnings |-> sanitizationResult.warnings]
validateProperty(sanitizer, value, rule) ==
  validatePropertyResult(
    sanitize(sanitizer, JsStr(IF value.null THEN <<>> ELSE value.str), rule.securityType),
    rule.securityType)

validateInput(sanitizer, input, validation) ==
  [propName \in DOMAIN input |->
     IF propName \notin DOMAIN validation
     THEN NoRuleValidationResult(sanitize(sanitizer, input[propName], "safe"))
     ELSE validateProperty(sanitizer, input[propName], validation[propName])]

securityTypeOfName(lowerName) ==
  IF Includes(lowerName, <<"p","a","t","h">>) \/ Includes(lowerName, <<"f","i","l","e">>)
     \/ Includes(lowerName, <<"d","i","r">>)
  THEN "filepath"
  ELSE IF Includes(lowerName, <<"c","o","m","m","a","n","d">>) \/ Includes(lowerName, <<"c","m","d">>)
       THEN "command"
       ELSE "safe"
getDefaultSecurityType(propertyName) == securityTypeOfName(toLowerCase(propertyName))

\* inputSchema.properties maps a property name to [security |-> a SecurityType,
\* or "" when the schema carries no security annotation]
extractValidationRules(inputSchema) ==
  [propName \in DOMAIN inputSchema.properties |->
     [securityType |->
        IF inputSchema.properties[propName].security # ""
        THEN inputSchema.properties[propName].security
        ELSE getDefaultSecurityType(propName)]]

(***************************************************************************)
(* Mustache.render(template, view) with the library's default escape, for  *)
(* templates of text and variable tags: {{name}} is replaced by the        *)
(* HTML-escaped value, {{{name}}} and {{&name}} by the value as it is, a   *)
(* name the view does not hold by the empty string.                        *)
(***************************************************************************)
escapeHtmlChar(c) ==
  CASE c = "&" -> <<"&","a","m","p",";">>
    [] c = "<" -> <<"&","l","t",";">>
    [] c = ">" -> <<"&","g","t",";">>
    [] c = "\"" -> <<"&","q","u","o","t",";">>
    [] c = "'" -> <<"&","#","3","9",";">>
    [] c = "/" -> <<"&","#","x","2","F",";">>
    [] c = Backtick -> <<"&","#","x","6","0",";">>
    [] c = "=" -> <<"&","#","x","3","D",";">>
    [] OTHER -> <<c>>
RECURSIVE escapeHtml(_)
escapeHtml(s) ==
  IF s = <<>> THEN <<>> ELSE escapeHtmlChar(s[1]) \o escapeHtml(Tail(s))

\* the index of the first occurrence of sub in s at or after from, 0 if none
FirstOf(hits) == IF hits = {} THEN 0 ELSE CHOOSE i \in hits : \A j \in hits : i <= j
IndexOf(s, sub, from) ==
  FirstOf({i \in from..(Len(s) - Len(sub) + 1) : SubSeq(s, i, i + Len(sub) - 1) = sub})

lookup(view, name) == IF name \in DOMAIN view THEN view[name] ELSE <<>>

\* the text a tag stands for: inner is the text between the braces
MustacheValue(inner, triple, view) ==
  IF triple THEN lookup(view, Trim(inner))
  ELSE IF inner # <<>> /\ inner[1] = "&" THEN lookup(view, Trim(Tail(inner)))
       ELSE escapeHtml(lookup(view, Trim(inner)))

\* [ok, out]: ok is FALSE when the parser throws 'Unclosed tag'.  before is
\* the text before the tag, rest the template after the tag's "{{", close the
\* index of the closing braces in rest (0 if none), first the index of the
\* first character of the tag's text and width the number of closing braces
RECURSIVE MustacheRenderFrom(_, _, _)
MustacheTagAt(before, rest, view, out, close, first, width) ==
  IF close = 0 THEN [ok |-> FALSE, out |-> <<>>]
  ELSE MustacheRenderFrom(SubSeq(rest, close + width, Len(rest)), view,
         out \o before \o MustacheValue(SubSeq(rest, first, close - 1), width = 3, view))
MustacheTag(before, rest, view, out) ==
  IF rest # <<>> /\ rest[1] = "{"
  THEN MustacheTagAt(before, rest, view, out, IndexOf(rest, <<"}","}","}">>, 2), 2, 3)
  ELSE MustacheTagAt(before, rest, view, out, IndexOf(rest, <<"}","}">>, 1), 1, 2)
MustacheOpen(template, view, out, open) ==
  IF open = 0 THEN [ok |-> TRUE, out |-> out \o template]
  ELSE MustacheTag(SubSeq(template, 1, open - 1),
                   SubSeq(template, open + 2, Len(template)), view, out)
MustacheRenderFrom(template, view, out) ==
  MustacheOpen(template, view, out, IndexOf(template, <<"{","{">>, 1))
MustacheRender(template, view) == MustacheRenderFrom(template, view, <<>>)

(***************************************************************************)
(* templating/mustache.ts                                                  *)
(***************************************************************************)
\* the outcome of a render: ok = FALSE is a throw of error
Thrown(e) == [ok |-> FALSE, error |-> e, value |-> <<>>]
Returned(v) == [ok |-> TRUE, error |-> "", value |-> v]

\* renderTemplate: the context values are rendered as they are given
renderTemplateResult(r) ==
  IF r.ok THEN Returned(r.out) ELSE Thrown("Template rendering failed")
renderTemplate(template, context) ==
  renderTemplateResult(
    MustacheRender(template,
      [k \in DOMAIN context |-> IF context[k].null THEN <<>> ELSE context[k].str]))

\* a renderer that returns the rendering without the final check of it
renderSecureRenderedUnchecked(policyManager, r) ==
  IF ~r.ok THEN Thrown("Unclosed tag") ELSE Returned(r.out)

\* renderSecureTemplate from the rendering on
renderSecureRendered(policyManager, r) ==
  IF ~r.ok THEN Thrown("Unclosed tag")
  ELSE IF isPatternBlocked(policyManager, r.out)
       THEN Thrown("Rendered command contains blocked patterns")
       ELSE Returned(r.out)
\* a renderer that does not check the template itself
renderSecureValidatedNoTemplateCheck(template, policyManager, validationResults) ==
  IF \E k \in DOMAIN validationResults : ~validationResults[k].valid
  THEN Thrown("Template validation failed")
  ELSE IF (\E k \in DOMAIN validationResults : validationResults[k].warnings # <<>>)
          /\ shouldFailOnWarnings(policyManager)
  THEN Thrown("Template validation warnings treated as errors")
  ELSE renderSecureRendered(policyManager,
         MustacheRender(template,
           [k \in DOMAIN validationResults |-> validationResults[k].sanitizedValue]))
\* a renderer that checks the template before the validation results
renderSecureValidatedTemplateFirst(template, policyManager, validationResults) ==
  IF isPatternBlocked(policyManager, template)
  THEN Thrown("Template contains blocked patterns")
  ELSE IF \E k \in DOMAIN validationResults : ~validationResults[k].valid
  THEN Thrown("Template validation failed")
  ELSE IF (\E k \in DOMAIN validationResults : validationResults[k].warnings # <<>>)
          /\ shouldFailOnWarnings(policyManager)
  THEN Thrown("Template validation warnings treated as errors")
  ELSE renderSecureRendered(policyManager,
         MustacheRender(template,
           [k \in DOMAIN validationResults |-> validationResults[k].sanitizedValue]))

\* renderSecureTemplate from the validation results on
renderSecureValidated(template, policyManager, validationResults) ==
  IF \E k \in DOMAIN validationResults : ~validationResults[k].valid
  THEN Thrown("Template validation failed")
  ELSE IF (\E k \in DOMAIN validationResults : validationResults[k].warnings # <<>>)
          /\ shouldFailOnWarnings(policyManager)
  THEN Thrown("Template validation warnings treated as errors")
  ELSE IF isPatternBlocked(policyManager, template)
  THEN Thrown("Template contains blocked patterns")
  ELSE renderSecureRendered(policyManager,
         MustacheRender(template,
           [k \in DOMAIN validationResults |-> validationResults[k].sanitizedValue]))
\* secureContext is [validator |-> the validator's sanitizer, policyManager |->
\* the manager's policy]
renderSecureTemplate(template, context, secureContext, inputSchema) ==
  renderSecureValidated(template, secureContext.policyManager,
    validateInput(secureContext.validator, context,
                  extractValidationRules(inputSchema)))

(***************************************************************************)
(* mcp/tools.ts                                                            *)
(***************************************************************************)
\* cmd is a string ([str |-> TRUE, s |-> the string]) or a PlatformCommands
\* object ([str |-> FALSE, by |-> a function from "win", "macos", "unix",
\* "default" to strings])
getPlatformCommand(cmd) ==
  IF cmd.str THEN [ok |-> TRUE, value |-> cmd.s]
  ELSE IF currentPlatform = "win32" /\ "win" \in DOMAIN cmd.by /\ cmd.by["win"] # <<>>
       THEN [ok |-> TRUE, value |-> cmd.by["win"]]
  ELSE IF currentPlatform = "darwin" /\ "macos" \in DOMAIN cmd.by /\ cmd.by["macos"] # <<>>
       THEN [ok |-> TRUE, value |-> cmd.by["macos"]]
  ELSE IF currentPlatform \in {"linux", "freebsd"} /\ "unix" \in DOMAIN cmd.by
          /\ cmd.by["unix"] # <<>>
       THEN [ok |-> TRUE, value |-> cmd.by["unix"]]
  ELSE IF "default" \in DOMAIN cmd.by /\ cmd.by["default"] # <<>>
       THEN [ok |-> TRUE, value |-> cmd.by["default"]]
  ELSE [ok |-> FALSE, value |-> <<>>]

\* an exit code given to the 'close' listener: null or a number
ExitNull == [null |-> TRUE, n |-> 0]
Exit(n) == [null |-> FALSE, n |-> n]
\* code || 0
CodeOrZero(code) == IF code.null THEN 0 ELSE code.n

NoResult == [set |-> FALSE, exitCode |-> 0, success |-> FALSE, stderr |-> ""]
CommandResult(exitCode, success, stderr) ==
  [set |-> TRUE, exitCode |-> exitCode, success |-> success, stderr |-> stderr]

NoChild == [spawned |-> FALSE, command |-> <<>>, timeout |-> 0, stdoutLen |-> 0,
            stderrLen |-> 0, killed |-> FALSE, timedOut |-> FALSE,
            closed |-> FALSE, errored |-> FALSE, closeCode |-> ExitNull]
\* spawn(shell, [...args, renderedCommand], {timeout})
spawn(renderedCommand, timeout) ==
  [NoChild EXCEPT !.spawned = TRUE, !.command = renderedCommand, !.timeout = timeout]

NoInvocation == [handler |-> "none", status |-> "idle", template |-> <<>>,
                 context |-> <<>>, inputSchema |-> [properties |-> <<>>],
                 secure |-> FALSE, rendered |-> [ok |-> FALSE, error |-> "", value |-> <<>>],
                 result |-> NoResult, resolveCalls |-> 0, audits |-> 0]

(***************************************************************************)
(* Bounds and inputs of the model                                          *)
(***************************************************************************)
\* longest input string drawn exhaustively from Alphabet
MaxLen == 3
\* longest value drawn exhaustively for a render
MaxRenderLen == 1
\* most characters of stdout a child writes
MaxStdout == 3
\* the maxInputLength override of the policies the executor runs under
SmallMaxInputLength == 2

Alphabet == {"a", ".", "/", ":", ";", "'", " "}
StringsUpTo(n) == UNION {[1..k -> Alphabet] : k \in 0..n}

\* inputs of the repository's test suites and of the specification's examples
SampleStrings ==
  { <<"h","e","l","l","o",";"," ","r","m"," ","-","r","f"," ","/">>, <<".",".","/",".",".","/",".",".","/","e","t","c","/","p","a","s","s","w","d">>, <<"/","e","t","c","/","p","a","s","s","w","d">>, <<"d","o","c","u","m","e","n","t","s","/","f","i","l","e",".","t","x","t">>,
    <<"f","i","l","e",";","r","m"," ","-","r","f"," ","/">>, <<"l","s"," ","-","l","a">>, <<"r","m"," ","-","r","f"," ","/">>, <<"s","u","d","o"," ","r","m"," ","-","r","f"," ","/">>, <<"g","i","t">>,
    <<"e","c","h","o"," ","\"","h","e","l","l","o",";"," ","r","m"," ","-","r","f"," ","/","\"">>, <<"h","e","l","l","o"," ","$","(","r","m"," ","-","r","f"," ","/",")">>, <<"H","e","l","l","o"," ","W","o","r","l","d"," ","1","2","3">>,
    <<"h","e","l","l","o",";"," ","w","o","r","l","d">>, <<"h","e","l","l","o","\n","w","o","r","l","d","\r">>, <<"h","e","l","l","o"," ","w","o","r","l","d">>, <<"C",":","\\","W","i","n","d","o","w","s">>,
    <<"$","$","(","(","a">>, <<"$","$","{","{","a">>, <<"a",Backtick,"b">>, <<"l","s",";","i","d"," ","-","l">>, <<"R","M"," ","x">>, <<".","/","s","a","f","e","/","p","a","t","h">>, <<"a","$","b">>,
    <<"a","(","b",")">>, <<"x","{","y","}","[","z","]">>, <<"a","|","b","&","c">>, <<".",".",".">>, <<"C",":">> }

Strings == StringsUpTo(MaxLen) \cup SampleStrings
InputValues == {JsNull} \cup {JsStr(s) : s \in Strings}

\* the sanitizers of the test suites and one that allows unsafe; only the
\* command and unsafe algorithms read the sanitizer's fields
TestSanitizer == NewSecuritySanitizer(<< <<"l","s">>, <<"e","c","h","o">>, <<"c","a","t">> >>, FALSE)
OpenSanitizer == NewSecuritySanitizer(<< >>, FALSE)
UnsafeSanitizer == NewSecuritySanitizer(<< >>, TRUE)
SanitizersFor(t) ==
  CASE t = "command" -> {TestSanitizer, OpenSanitizer}
    [] t = "unsafe" -> {OpenSanitizer, UnsafeSanitizer}
    [] OTHER -> {OpenSanitizer}

VARIABLES policy, inv, child, sanCall, sanResult, renderCall, renderResult,
          polCall, polResult, baselines, managers, loadCall, loadResult,
          validators
polVars == <<polCall, polResult, baselines, managers>>
loadVars == <<loadCall, loadResult>>
vars == <<policy, inv, child, sanCall, sanResult, renderCall, renderResult,
          polCall, polResult, baselines, managers, loadCall, loadResult,
          validators>>

NoSanResult == [set |-> FALSE, value |-> <<>>, safe |-> TRUE, warnings |-> <<>>,
                valid |-> TRUE, errors |-> <<>>]
NoSanCall == [op |-> "none", value |-> JsNull, securityType |-> "safe",
              hasRule |-> FALSE, sanitizer |-> OpenSanitizer]
NoRenderCall == [op |-> "none", template |-> <<>>, context |-> <<>>,
                 inputSchema |-> [properties |-> <<>>],
                 secureContext |-> [validator |-> OpenSanitizer,
                                    policyManager |-> SECURITY_POLICIES("moderate")]]
NoRenderResult == [set |-> FALSE, ok |-> FALSE, error |-> "", value |-> <<>>]

\* the policy managers of the process: none is constructed yet
Managers == {1, 2}
NoManager == [built |-> FALSE, policy |-> <<>>]
\* the validators built for the managers' secure contexts: none yet
NoValidator == [built |-> FALSE, sanitizer |-> OpenSanitizer]
NoPolCall == [op |-> "none", policy |-> <<>>, input |-> <<>>,
              manager |-> 0, level |-> "", overrides |-> <<>>]
NoPolResult == [set |-> FALSE, value |-> FALSE]
\* the module-level table SECURITY_POLICIES
BuiltInPolicies == [level \in SecurityLevels |-> SECURITY_POLICIES(level)]
\* no configuration is being loaded
NoSecurity == [defined |-> FALSE, block |-> << >>]
NoLoadCall == [document |-> "none", allowMissingFile |-> FALSE,
               validateSchema |-> TRUE, security |-> NoSecurity, tools |-> << >>]
NoLoadResult == [set |-> FALSE, threw |-> FALSE, error |-> "", errors |-> << >>]
LoadIdle == loadCall = NoLoadCall /\ loadResult = NoLoadResult

PolicyIdle ==
  /\ polCall = NoPolCall
  /\ polResult = NoPolResult
  /\ baselines = BuiltInPolicies
  /\ managers = [m \in Managers |-> NoManager]
  /\ validators = [m \in Managers |-> NoValidator]

(***************************************************************************)
(* SpecSanitize: one call of SecuritySanitizer.sanitize or of              *)
(* InputValidator.validateInput, for every input of InputValues            *)
(***************************************************************************)
prop == <<"v","a","l","u","e">>

\* sanitizer.sanitize(value, securityType)
Sanitize ==
  /\ sanCall.op = "sanitize" /\ ~sanResult.set
  /\ sanResult' = [set |-> TRUE, valid |-> TRUE, errors |-> <<>>]
                    @@ sanitize(sanCall.sanitizer, sanCall.value, sanCall.securityType)
  /\ UNCHANGED <<validators, loadVars, polVars, policy, inv, child, sanCall, renderCall, renderResult>>

\* the ValidationResult r as the call's recorded result
ValidationState(r) ==
  [set |-> TRUE, value |-> r.sanitizedValue, safe |-> r.valid,
   warnings |-> r.warnings, valid |-> r.valid, errors |-> r.errors]

\* validator.validateInput({value: v}, validation)["value"], where validation
\* holds the rule {securityType} for the property or no rule for it
ValidateInput ==
  /\ sanCall.op = "validateInput" /\ ~sanResult.set
  /\ sanResult' = ValidationState(
       validateInput(sanCall.sanitizer, (prop :> sanCall.value),
                     IF sanCall.hasRule
                     THEN (prop :> [securityType |-> sanCall.securityType])
                     ELSE <<>>)[prop])
  /\ UNCHANGED <<validators, loadVars, polVars, policy, inv, child, sanCall, renderCall, renderResult>>

SanCalls ==
  {[op |-> o, value |-> c[1], securityType |-> c[2], hasRule |-> TRUE, sanitizer |-> c[3]] :
     o \in {"sanitize", "validateInput"},
     c \in UNION {InputValues \X {t} \X SanitizersFor(t) : t \in SecurityTypes}}
  \cup
  {[op |-> "validateInput", value |-> v, securityType |-> "safe", hasRule |-> FALSE,
    sanitizer |-> OpenSanitizer] : v \in InputValues}

InitSanitize ==
  /\ policy = SECURITY_POLICIES("moderate")
  /\ inv = NoInvocation
  /\ child = NoChild
  /\ sanCall \in SanCalls
  /\ sanResult = NoSanResult
  /\ renderCall = NoRenderCall
  /\ renderResult = NoRenderResult
  /\ LoadIdle
  /\ PolicyIdle

NextSanitize == Sanitize \/ ValidateInput

SpecSanitize == InitSanitize /\ [][NextSanitize]_vars

(***************************************************************************)
(* SpecRender: one call of renderSecureTemplate                            *)
(***************************************************************************)
\* new SecuritySanitizer(policy.allowedCommands, policyManager.isUnsafeAllowed())
\* and new InputValidator(sanitizer), as the callers of the test suites build them
SecureContextOf(p) ==
  [validator |-> NewSecuritySanitizer(p.allowedCommands, isUnsafeAllowed(p)),
   policyManager |-> p]

SecureContexts ==
  { SecureContextOf(SECURITY_POLICIES("strict")),
    SecureContextOf(SECURITY_POLICIES("moderate")),
    SecureContextOf(SECURITY_POLICIES("permissive")),
    SecureContextOf(NewSecurityPolicyManager("moderate", [failOnWarnings |-> TRUE])),
    SecureContextOf(NewSecurityPolicyManager("permissive", [blockedPatterns |-> << >>])),
    SecureContextOf(NewSecurityPolicyManager("permissive", [blockedPatterns |-> << <<";">> >>])) }

Templates ==
  { <<"e","c","h","o"," ","{","{","m","e","s","s","a","g","e","}","}">>, <<"{","{","c","o","m","m","a","n","d","}","}"," ","-","l","a">>, <<"c","a","t"," ","{","{","{","p","a","t","h","}","}","}">>, <<"r","m"," ","-","r","f"," ","{","{","p","a","t","h","}","}">>,
    <<"e","c","h","o"," ","{","{","m","e","s","s","a","g","e">> }
PropNames == { <<"m","e","s","s","a","g","e">>, <<"c","o","m","m","a","n","d">>, <<"p","a","t","h">> }

RenderSamples ==
  { <<"h","e","l","l","o",";"," ","r","m"," ","-","r","f"," ","/">>, <<"h","e","l","l","o",";"," ","d","a","n","g","e","r","o","u","s"," ","c","o","m","m","a","n","d">>, <<"g","i","t">>, <<"n","m","a","p">>, <<"r","m"," ","-","r","f"," ","x">>,
    <<"l","s"," ","-","l","a">>, <<".",".","/",".",".","/",".",".","/","e","t","c","/","p","a","s","s","w","d">>, <<".","/","s","a","f","e","/","p","a","t","h">>, <<"a"," ","b">>, <<"s","u","d","o">> }
RenderValues ==
  {JsNull} \cup {JsStr(s) : s \in StringsUpTo(MaxRenderLen) \cup RenderSamples}

\* the schema declares the property with a security annotation, declares it
\* with none (""), or does not declare it ("undeclared")
SchemaFor(name, security) ==
  IF security = "undeclared" THEN [properties |-> <<>>]
  ELSE [properties |-> (name :> [security |-> security])]

RenderCalls ==
  {[op |-> "renderSecureTemplate", template |-> t, context |-> (n :> v),
    inputSchema |-> SchemaFor(n, sec), secureContext |-> sc] :
     t \in Templates, n \in PropNames, v \in RenderValues,
     sec \in SecurityTypes \cup {"", "undeclared"}, sc \in SecureContexts}

Render ==
  /\ renderCall.op = "renderSecureTemplate" /\ ~renderResult.set
  /\ renderResult' = [set |-> TRUE] @@
       renderSecureTemplate(renderCall.template, renderCall.context,
                            renderCall.secureContext, renderCall.inputSchema)
  /\ UNCHANGED <<validators, loadVars, polVars, policy, inv, child, sanCall, sanResult, renderCall>>

InitRender ==
  /\ policy = SECURITY_POLICIES("moderate")
  /\ inv = NoInvocation
  /\ child = NoChild
  /\ sanCall = NoSanCall
  /\ sanResult = NoSanResult
  /\ renderCall \in RenderCalls
  /\ renderResult = NoRenderResult
  /\ LoadIdle
  /\ PolicyIdle

NextRender == Render

SpecRender == InitRender /\ [][NextRender]_vars

(***************************************************************************)
(* Spec: the server's CallTool handler, executeSecureShellCommand and the  *)
(* events of the spawned child process                                     *)
(***************************************************************************)
DEFAULT_TIMEOUT == 30000

\* config.tools after loadConfig: a string cmd has become {default: cmd}
ConfigTools ==
  [echo |-> [name |-> "Echo", propName |-> <<"m","e","s","s","a","g","e">>,
             input |-> SchemaFor(<<"m","e","s","s","a","g","e">>, "text"),
             cmd |-> [str |-> FALSE, by |-> [default |-> <<"e","c","h","o"," ","{","{","m","e","s","s","a","g","e","}","}">>]]],
   list |-> [name |-> "List", propName |-> <<"p","a","t","h">>,
             input |-> SchemaFor(<<"p","a","t","h">>, ""),
             cmd |-> [str |-> FALSE,
                      by |-> [unix |-> <<"l","s"," ","{","{","p","a","t","h","}","}">>, default |-> <<"d","i","r"," ","{","{","p","a","t","h","}","}">>]]],
   broken |-> [name |-> "Broken", propName |-> <<"p","a","t","h">>,
               input |-> SchemaFor(<<"p","a","t","h">>, ""),
               cmd |-> [str |-> FALSE, by |-> [win |-> <<"d","i","r"," ","{","{","p","a","t","h","}","}">>]]]]
RequestNames == {"echo", "List", "broken", "missing"}
ExecValues == {JsStr(<<"a">>), JsStr(<<"a",";","b">>), JsStr(<<".",".","/","x">>), JsStr(<<"$","(","i","d",")">>)}

ExecPolicies ==
  { NewSecurityPolicyManager("moderate", [maxInputLength |-> SmallMaxInputLength]),
    NewSecurityPolicyManager("permissive", [maxInputLength |-> SmallMaxInputLength]) }

\* this.config.tools[name], else the tool whose display name is name
FindTool(name) ==
  IF name \in DOMAIN ConfigTools THEN {ConfigTools[name]}
  ELSE {ConfigTools[k] : k \in {k \in DOMAIN ConfigTools : ConfigTools[k].name = name}}

\* a promise that every call of resolve settles anew
ResolveAgain(i, result) ==
  [i EXCEPT !.resolveCalls = @ + 1, !.status = "resolved", !.result = result]

\* resolve(result) of the executor's promise: only the first call settles it
Resolve(i, result) ==
  [i EXCEPT !.resolveCalls = @ + 1,
            !.status = IF @ = "pending" THEN "resolved" ELSE @,
            !.result = IF i.status = "pending" THEN result ELSE @]

\* the invocation when the executor's promise callback has run: pending on the
\* spawned child, or already resolved by the catch block (stderr is the
\* message the catch block reports)
StartedInvocation(handler, secure, template, context, inputSchema, rendered) ==
  [NoInvocation EXCEPT
     !.handler = handler, !.secure = secure, !.template = template,
     !.context = context, !.inputSchema = inputSchema, !.rendered = rendered,
     !.status = IF rendered.ok THEN "pending" ELSE "resolved",
     !.result = IF rendered.ok THEN NoResult
                ELSE CommandResult(1, FALSE,
                       IF secure THEN "Security validation failed" ELSE rendered.error)]
\* an executor that spawns whatever the render gave
StartedChildAlways(rendered, timeout) == spawn(rendered.value, timeout)
\* the child process of the invocation: spawned only when the render returned
StartedChild(rendered, timeout) ==
  IF rendered.ok THEN spawn(rendered.value, timeout) ELSE NoChild
Launch(handler, secure, template, context, inputSchema, rendered, timeout) ==
  /\ inv' = StartedInvocation(handler, secure, template, context, inputSchema, rendered)
  /\ child' = StartedChild(rendered, timeout)

\* const platformCommand = getPlatformCommand(command);
\* const renderedCommand = renderTemplate(platformCommand, context)
renderPlatformCommand(platformCommand, context) ==
  IF platformCommand.ok THEN renderTemplate(platformCommand.value, context)
  ELSE Thrown("No command defined for platform")
\* const renderedCommand = renderSecureTemplate(platformCommand, context,
\*                                              secureContext, inputSchema)
renderSecurePlatformCommand(platformCommand, context, secureContext, inputSchema) ==
  IF platformCommand.ok
  THEN renderSecureTemplate(platformCommand.value, context, secureContext, inputSchema)
  ELSE Thrown("No command defined for platform")

\* executeShellCommand(command, context), down to the spawn
executeShellCommand(command, context, inputSchema) ==
  Launch("CallTool", FALSE, getPlatformCommand(command).value, context, inputSchema,
         renderPlatformCommand(getPlatformCommand(command), context), DEFAULT_TIMEOUT)

\* the CallToolRequestSchema handler, down to the spawn of executeShellCommand:
\* the executor of createToolExecutor is called with the request's arguments
CallTool(name, value) ==
  /\ inv.status = "idle"
  /\ IF FindTool(name) = {}
     THEN /\ inv' = [NoInvocation EXCEPT !.handler = "CallTool", !.status = "thrown"]
          /\ child' = NoChild
     ELSE \E definition \in FindTool(name) :
            executeShellCommand(definition.cmd, (definition.propName :> value),
                                definition.input)
  /\ UNCHANGED <<validators, loadVars, polVars, policy, sanCall, sanResult, renderCall, renderResult>>

\* executeSecureShellCommand(command, context, inputSchema, secureContext, timeout),
\* down to the spawn; timeout = 0 stands for an absent timeout
ExecuteSecureShellCommand(command, name, value, security, timeout) ==
  /\ inv.status = "idle"
  /\ Launch("executeSecureShellCommand", TRUE, getPlatformCommand(command).value,
            (name :> value), SchemaFor(name, security),
            renderSecurePlatformCommand(getPlatformCommand(command), (name :> value),
                                        SecureContextOf(policy), SchemaFor(name, security)),
            IF timeout # 0 THEN timeout ELSE getMaxExecutionTimeout(policy))
  /\ UNCHANGED <<validators, loadVars, polVars, policy, sanCall, sanResult, renderCall, renderResult>>

\* a limit that is reached as soon as the output is as long as the bound
OutputReaches(stdoutLen, p) == stdoutLen >= p.maxInputLength
\* stdout.length > secureContext.policyManager.getPolicy().maxInputLength
OutputExceeds(stdoutLen, p) == stdoutLen > p.maxInputLength

\* child.stdout 'data': n more characters of output; the secure executor
\* kills the child when the accumulated output exceeds the policy's bound
ChildStdoutData(n) ==
  /\ child.spawned /\ ~child.closed
  /\ child.stdoutLen + n <= MaxStdout
  /\ child' = [child EXCEPT !.stdoutLen = @ + n,
                            !.killed = @ \/ (inv.secure
                                             /\ OutputExceeds(child.stdoutLen + n, policy))]
  /\ UNCHANGED <<validators, loadVars, polVars, policy, inv, sanCall, sanResult, renderCall, renderResult>>

\* child.stderr 'data'
ChildStderrData ==
  /\ child.spawned /\ ~child.closed
  /\ child.stderrLen < 1
  /\ child' = [child EXCEPT !.stderrLen = @ + 1]
  /\ UNCHANGED <<validators, loadVars, polVars, policy, inv, sanCall, sanResult, renderCall, renderResult>>

\* the timeout of spawn's options expires: the runtime kills the child
ChildTimeout ==
  /\ child.spawned /\ ~child.closed /\ ~child.timedOut
  /\ child' = [child EXCEPT !.timedOut = TRUE, !.killed = TRUE]
  /\ UNCHANGED <<validators, loadVars, polVars, policy, inv, sanCall, sanResult, renderCall, renderResult>>

\* child 'close' with the exit code, null when a signal ended the child
ChildClose(code) ==
  /\ child.spawned /\ ~child.closed
  /\ child' = [child EXCEPT !.closed = TRUE, !.closeCode = code]
  /\ LET exitCode == CodeOrZero(code)
         result == CommandResult(exitCode, exitCode = 0, "")
         audited == IF inv.secure /\ isAuditLoggingEnabled(policy)
                    THEN [inv EXCEPT !.audits = @ + 1] ELSE inv
     IN inv' = Resolve(audited, result)
  /\ UNCHANGED <<validators, loadVars, polVars, policy, sanCall, sanResult, renderCall, renderResult>>

\* child 'error': the process could not be spawned or could not be killed
ChildError ==
  /\ child.spawned /\ ~child.closed /\ ~child.errored
  /\ child' = [child EXCEPT !.errored = TRUE]
  /\ LET result == CommandResult(1, FALSE, "error.message")
         audited == IF inv.secure /\ isAuditLoggingEnabled(policy)
                    THEN [inv EXCEPT !.audits = @ + 1] ELSE inv
     IN inv' = Resolve(audited, result)
  /\ UNCHANGED <<validators, loadVars, polVars, policy, sanCall, sanResult, renderCall, renderResult>>

\* the response is sent and the invocation's objects are discarded
Discard ==
  /\ inv.status \in {"resolved", "thrown"}
  /\ child.spawned => child.closed
  /\ inv' = NoInvocation
  /\ child' = NoChild
  /\ UNCHANGED <<validators, loadVars, polVars, policy, sanCall, sanResult, renderCall, renderResult>>

Init ==
  /\ policy \in ExecPolicies
  /\ inv = NoInvocation
  /\ child = NoChild
  /\ sanCall = NoSanCall
  /\ sanResult = NoSanResult
  /\ renderCall = NoRenderCall
  /\ renderResult = NoRenderResult
  /\ LoadIdle
  /\ PolicyIdle

Next ==
  \/ \E name \in RequestNames, value \in ExecValues : CallTool(name, value)
  \/ \E name \in DOMAIN ConfigTools, value \in ExecValues,
        security \in {"", "text", "undeclared"}, timeout \in {0, 5000} :
       ExecuteSecureShellCommand(ConfigTools[name].cmd, ConfigTools[name].propName,
                                 value, security, timeout)
  \/ \E n \in 1..MaxStdout : ChildStdoutData(n)
  \/ ChildStderrData
  \/ ChildTimeout
  \/ \E code \in {Exit(0), Exit(1), ExitNull} : ChildClose(code)
  \/ ChildError
  \/ Discard

Spec == Init /\ [][Next]_vars

\* the spawned child emits close or error in the end: the runtime reports the
\* end of every child process it started
ChildEnds == ChildError \/ \E code \in {Exit(0), Exit(1), ExitNull} : ChildClose(code)
LiveSpec == Init /\ [][Next]_vars /\ WF_vars(ChildEnds)

(***************************************************************************)
(* SpecPolicy: one query of a SecurityPolicyManager                        *)
(* (isCommandAllowed, isPatternBlocked, isPathAllowed)                     *)
(***************************************************************************)
MaxQueryLen == 2

\* the policies queried: the three baselines and policies with overrides
QueryPolicies ==
  { SECURITY_POLICIES("strict"), SECURITY_POLICIES("moderate"),
    SECURITY_POLICIES("permissive"),
    NewSecurityPolicyManager("permissive", [allowedCommands |-> << <<"l","s">>, <<"a">> >>]),
    NewSecurityPolicyManager("moderate",
                             [blockedPatterns |-> << <<"$","(">>, <<"P","a","s","s","W","d">>, <<"a",".">> >>,
                              allowedCommands |-> << >>,
                              allowedPaths |-> << <<"a">> >>]),
    NewSecurityPolicyManager("permissive",
                             [blockedPatterns |-> << <<"P","a","s","s","W","d">>, <<"a",":">> >>]) }

QueryStrings ==
  StringsUpTo(MaxQueryLen)
    \cup { <<"g","i","t">>, <<"G","I","T">>, <<"e","c","h","o">>, <<"l","s">>, <<"r","m">>, <<"a","n","y","-","c","o","m","m","a","n","d">>, <<"r","m"," ","-","r","f">>, <<"s","u","d","o"," ","r","m">>,
           <<"r","m"," ","-","r","f"," ","/">>, <<"R","M"," ","-","R","F"," ","/">>, <<"f","o","r","m","a","t"," ","C",":">>, <<"F","O","R","M","A","T"," ","c",":">>, <<"e","c","h","o"," ","h","e","l","l","o">>,
           <<"l","s"," ","-","l","a">>, <<"c","a","t"," ","/","e","t","c","/","p","a","s","s","w","d">>, <<"c","a","t"," ","/","E","T","C","/","P","A","S","S","W","D">>, <<"a"," ","$","(","b",")">>, <<"n","m","a","p">>,
           <<".","/","l","o","c","a","l","-","f","i","l","e">>, <<"l","o","c","a","l","-","f","i","l","e">>, <<".","/","a","/",".",".","/",".",".","/","e","t","c">>, <<"/","t","m","p","/","t","e","m","p","-","f","i","l","e">>,
           <<"/","t","m","p","/",".",".","/","e","t","c","/","p","a","s","s","w","d">>, <<"/","e","t","c","/","p","a","s","s","w","d">>, <<"/","h","o","m","e","/","u","s","e","r","/","f","i","l","e">>, <<"/","t","m","p">>,
           <<".","/">>, <<"a","/",".",".","/","b">> }

PolCalls ==
  { [NoPolCall EXCEPT !.op = op, !.policy = p, !.input = input] :
      op \in {"isCommandAllowed", "isPatternBlocked", "isPathAllowed"},
      p \in QueryPolicies, input \in QueryStrings }

IsCommandAllowed ==
  /\ polCall.op = "isCommandAllowed"
  /\ ~polResult.set
  /\ polResult' = [set |-> TRUE,
                   value |-> isCommandAllowed(polCall.policy, polCall.input)]
  /\ UNCHANGED <<validators, loadVars, policy, inv, child, sanCall, sanResult, renderCall, renderResult,
                 polCall, baselines, managers>>

IsPatternBlocked ==
  /\ polCall.op = "isPatternBlocked"
  /\ ~polResult.set
  /\ polResult' = [set |-> TRUE,
                   value |-> isPatternBlocked(polCall.policy, polCall.input)]
  /\ UNCHANGED <<validators, loadVars, policy, inv, child, sanCall, sanResult, renderCall, renderResult,
                 polCall, baselines, managers>>

IsPathAllowed ==
  /\ polCall.op = "isPathAllowed"
  /\ ~polResult.set
  /\ polResult' = [set |-> TRUE,
                   value |-> isPathAllowed(polCall.policy, polCall.input)]
  /\ UNCHANGED <<validators, loadVars, policy, inv, child, sanCall, sanResult, renderCall, renderResult,
                 polCall, baselines, managers>>

InitPolicy ==
  /\ policy = SECURITY_POLICIES("moderate")
  /\ inv = NoInvocation
  /\ child = NoChild
  /\ sanCall = NoSanCall
  /\ sanResult = NoSanResult
  /\ renderCall = NoRenderCall
  /\ renderResult = NoRenderResult
  /\ LoadIdle
  /\ polCall \in PolCalls
  /\ polResult = NoPolResult
  /\ baselines = BuiltInPolicies
  /\ managers = [m \in Managers |-> NoManager]
  /\ validators = [m \in Managers |-> NoValidator]

NextPolicy == IsCommandAllowed \/ IsPatternBlocked \/ IsPathAllowed

SpecPolicy == InitPolicy /\ [][NextPolicy]_vars

(***************************************************************************)
(* SpecManagers: the managers of a process under constructor, fromConfig,  *)
(* getPolicy and updatePolicy                                              *)
(***************************************************************************)
\* this.policy = { ...SECURITY_POLICIES[level] } and then, with a customPolicy,
\* { ...this.policy, ...customPolicy }
\* SECURITY_POLICIES[level] is undefined for a level outside the table, and
\* { ...undefined } is the empty object: the policy is then the customPolicy
constructPolicy(table, level, customPolicy) ==
  IF level \in DOMAIN table
  THEN ObjectSpread(ObjectSpread(table[level], << >>), customPolicy)
  ELSE customPolicy

\* getPolicy(): { ...this.policy }
getPolicy(p) == ObjectSpread(p, << >>)

\* { ...SECURITY_POLICIES[this.policy.level], ...updates }
updatePolicyFromBaseline(p, updates) == ObjectSpread(SECURITY_POLICIES(p.level), updates)

\* updatePolicy(updates): { ...this.policy, ...updates }
updatePolicy(p, updates) == ObjectSpread(p, updates)

\* fromConfig: config?.level || 'moderate'
fromConfigLevel(config) ==
  IF "level" \in DOMAIN config /\ config.level # "" THEN config.level
  ELSE "moderate"

\* fromConfig: the fields copied to customPolicy; a number or a string is
\* copied when it is truthy, a list when present, a flag when not undefined
fromConfigCopies(config, f) ==
  CASE f \in {"maxExecutionTimeout", "maxInputLength"} -> config[f] # 0
    [] f = "defaultSecurityType" -> config[f] # ""
    [] f \in {"allowedCommands", "blockedPatterns", "allowedPaths"} -> TRUE
    [] f \in {"allowUnsafe", "auditLogging", "failOnWarnings"} -> TRUE
    [] OTHER -> FALSE
fromConfigCustomPolicy(config) ==
  [f \in {g \in DOMAIN config : fromConfigCopies(config, g)} |-> config[f]]
fromConfig(table, config) ==
  constructPolicy(table, fromConfigLevel(config), fromConfigCustomPolicy(config))

CustomPolicies ==
  { << >>, [maxInputLength |-> SmallMaxInputLength],
    [failOnWarnings |-> TRUE, allowedCommands |-> << >>] }
PolicyUpdates ==
  { [maxExecutionTimeout |-> 45],
    [maxInputLength |-> SmallMaxInputLength, auditLogging |-> FALSE] }
PolicyConfigs ==
  { << >>, [level |-> "strict"],
    [level |-> "permissive", maxInputLength |-> 0, failOnWarnings |-> FALSE],
    [maxExecutionTimeout |-> 45, defaultSecurityType |-> ""] }

ManagerCall(op, m, level, overrides) ==
  [NoPolCall EXCEPT !.op = op, !.manager = m, !.level = level,
                    !.overrides = overrides]

Constructor(m, level, customPolicy) ==
  /\ managers' = [managers EXCEPT ![m] =
       [built |-> TRUE, policy |-> constructPolicy(baselines, level, customPolicy)]]
  /\ polCall' = ManagerCall("constructor", m, level, customPolicy)
  /\ polResult' = NoPolResult
  /\ UNCHANGED <<validators, loadVars, policy, inv, child, sanCall, sanResult, renderCall, renderResult,
                 baselines>>

FromConfig(m, config) ==
  /\ managers' = [managers EXCEPT ![m] =
       [built |-> TRUE, policy |-> fromConfig(baselines, config)]]
  /\ polCall' = ManagerCall("fromConfig", m, "", config)
  /\ polResult' = NoPolResult
  /\ UNCHANGED <<validators, loadVars, policy, inv, child, sanCall, sanResult, renderCall, renderResult,
                 baselines>>

GetPolicy(m) ==
  /\ managers[m].built
  /\ polCall' = ManagerCall("getPolicy", m, "", << >>)
  /\ polResult' = [set |-> TRUE, value |-> getPolicy(managers[m].policy)]
  /\ UNCHANGED <<validators, loadVars, policy, inv, child, sanCall, sanResult, renderCall, renderResult,
                 baselines, managers>>

UpdatePolicy(m, updates) ==
  /\ managers[m].built
  /\ managers' = [managers EXCEPT ![m].policy = updatePolicy(@, updates)]
  /\ polCall' = ManagerCall("updatePolicy", m, "", updates)
  /\ polResult' = NoPolResult
  /\ UNCHANGED <<validators, loadVars, policy, inv, child, sanCall, sanResult, renderCall, renderResult,
                 baselines>>

InitManagers ==
  /\ policy = SECURITY_POLICIES("moderate")
  /\ inv = NoInvocation
  /\ child = NoChild
  /\ sanCall = NoSanCall
  /\ sanResult = NoSanResult
  /\ renderCall = NoRenderCall
  /\ renderResult = NoRenderResult
  /\ LoadIdle
  /\ PolicyIdle

NextManagers ==
  \/ \E m \in Managers, level \in SecurityLevels, customPolicy \in CustomPolicies :
       Constructor(m, level, customPolicy)
  \/ \E m \in Managers, config \in PolicyConfigs : FromConfig(m, config)
  \/ \E m \in Managers : GetPolicy(m)
  \/ \E m \in Managers, updates \in PolicyUpdates : UpdatePolicy(m, updates)

SpecManagers == InitManagers /\ [][NextManagers]_vars

(***************************************************************************)
(* SpecFromConfig: SecurityPolicyManager.fromConfig on raw configurations  *)
(* (an absent configuration reads as the empty one: every read of it is    *)
(* config?.field)                                                          *)
(***************************************************************************)
RawConfigs ==
  { << >>, [level |-> "strict"], [level |-> ""], [level |-> "bogus"],
    [level |-> "STRICT"], [level |-> "bogus", allowUnsafe |-> TRUE],
    [allowUnsafe |-> TRUE, maxExecutionTimeout |-> 15],
    [level |-> "permissive", maxInputLength |-> 0],
    [level |-> "moderate"] }

NextFromConfig == \E m \in Managers, config \in RawConfigs : FromConfig(m, config)

SpecFromConfig == InitManagers /\ [][NextFromConfig]_vars

(***************************************************************************)
(* config/loader.ts                                                        *)
(* A security block is a record of the fields it gives.  The tools are the *)
(* entries of config.tools in their order, each [name, tool]; a tool is a  *)
(* record of the fields it gives; its cmd, after the normalization of      *)
(* loadConfig, is the list of the [platform, command] entries of the       *)
(* object; its input is [type, properties] with the properties as          *)
(* [name, type, security] entries, security "" standing for none.  A field *)
(* of an error is the list of the parts of its dotted path.                *)
(***************************************************************************)
ConfigError(field, message) == [field |-> field, message |-> message]
ErrorIf(cond, field, message) ==
  IF cond THEN << ConfigError(field, message) >> ELSE << >>

validLevels == {"strict", "moderate", "permissive"}
validSecurityTypes == {"safe", "filepath", "command", "text", "unsafe"}
validTypes == {"string", "number", "integer", "boolean", "array", "object"}
platforms == {"win", "macos", "unix", "default"}

validateSecurityConfig(security) ==
  ErrorIf("level" \in DOMAIN security /\ security.level # ""
            /\ security.level \notin validLevels,
          <<"security", "level">>, "Security level must be one of")
  \o ErrorIf("defaultSecurityType" \in DOMAIN security
               /\ security.defaultSecurityType # ""
               /\ security.defaultSecurityType \notin validSecurityTypes,
             <<"security", "defaultSecurityType">>,
             "Default security type must be one of")
  \o ErrorIf("maxExecutionTimeout" \in DOMAIN security
               /\ security.maxExecutionTimeout # 0
               /\ security.maxExecutionTimeout <= 0,
             <<"security", "maxExecutionTimeout">>,
             "Max execution timeout must be a positive number")
  \o ErrorIf("maxInputLength" \in DOMAIN security
               /\ security.maxInputLength # 0 /\ security.maxInputLength <= 0,
             <<"security", "maxInputLength">>,
             "Max input length must be a positive number")

\* Mustache.parse(template) returns (it throws on an unclosed tag)
MustacheParses(template) == MustacheRender(template, << >>).ok

\* command.split(' ')[0]
commandPart(command) == SplitOn(command, " ", << >>)[1]

\* the errors of one command of validateToolCommand, which is reached only
\* if extractTemplateVariables(command) returns
validateCommandErrors(command, cmdPath, policyManager) ==
  ErrorIf(~MustacheParses(command), cmdPath, "Template validation failed")
  \o ErrorIf(isPatternBlocked(policyManager, command), cmdPath,
             "Command contains blocked patterns")
  \o ErrorIf(Len(policyManager.allowedCommands) > 0
               /\ ~isCommandAllowed(policyManager, commandPart(command)),
             cmdPath, "Command not in allowed list")

\* Object.values(cmd).filter(Boolean)
commandsOf(cmd) == SelectSeq(cmd, LAMBDA e : e.command # << >>)

\* commands.forEach: the command at index i is reported under the key at
\* index i of the unfiltered object
RECURSIVE validateCommandsFrom(_, _, _, _, _)
validateCommandsFrom(commands, cmd, fieldPath, policyManager, i) ==
  IF i > Len(commands) THEN << >>
  ELSE validateCommandErrors(commands[i].command, fieldPath \o <<cmd[i].platform>>,
                             policyManager)
       \o validateCommandsFrom(commands, cmd, fieldPath, policyManager, i + 1)

RECURSIVE validatePlatformsFrom(_, _, _)
validatePlatformsFrom(cmd, fieldPath, i) ==
  IF i > Len(cmd) THEN << >>
  ELSE ErrorIf(cmd[i].platform \in platforms /\ cmd[i].command = << >>,
               fieldPath \o <<cmd[i].platform>>, "Platform command cannot be empty")
       \o validatePlatformsFrom(cmd, fieldPath, i + 1)

\* [thrown, errors]: thrown when Mustache.parse throws in
\* extractTemplateVariables, which no handler of the loader catches
validateToolCommand(cmd, fieldPath, policyManager) ==
  [thrown |-> \E i \in DOMAIN cmd :
                 cmd[i].command # << >> /\ ~MustacheParses(cmd[i].command),
   errors |-> validateCommandsFrom(commandsOf(cmd), cmd, fieldPath, policyManager, 1)
              \o ErrorIf(\A i \in DOMAIN cmd : cmd[i].platform \notin platforms,
                         fieldPath, "At least one platform command must be defined")
              \o validatePlatformsFrom(cmd, fieldPath, 1)]

validatePropertyErrors(property, propPath, policyManager) ==
  ErrorIf(property.type \notin validTypes, propPath \o <<"type">>,
          "Property type must be one of")
  \o ErrorIf(property.security # "" /\ property.security \notin validSecurityTypes,
             propPath \o <<"security">>, "Security type must be one of")
  \o ErrorIf(property.security # "" /\ property.security \in validSecurityTypes
               /\ ~validateSecurityType(policyManager, property.security),
             propPath \o <<"security">>,
             "Security type not allowed by current security policy")

RECURSIVE validatePropertiesFrom(_, _, _, _)
validatePropertiesFrom(properties, fieldPath, policyManager, i) ==
  IF i > Len(properties) THEN << >>
  ELSE validatePropertyErrors(properties[i],
                              fieldPath \o <<"properties", properties[i].name>>,
                              policyManager)
       \o validatePropertiesFrom(properties, fieldPath, policyManager, i + 1)

validateToolInputSchema(schema, fieldPath, policyManager) ==
  ErrorIf(schema.type # "object", fieldPath \o <<"type">>,
          "Input schema type must be object")
  \o validatePropertiesFrom(schema.properties, fieldPath, policyManager, 1)

\* the body of the forEach over the tools, for one tool
validateTool(toolName, tool, policyManager) ==
  [thrown |-> "cmd" \in DOMAIN tool /\ tool.cmd # << >>
                /\ validateToolCommand(tool.cmd, <<"tools", toolName, "cmd">>,
                                       policyManager).thrown,
   errors |->
     ErrorIf("description" \notin DOMAIN tool, <<"tools", toolName, "description">>,
             "Tool description is required")
     \o (IF "cmd" \notin DOMAIN tool \/ tool.cmd = << >>
         THEN << ConfigError(<<"tools", toolName, "cmd">>, "Tool command is required") >>
         ELSE validateToolCommand(tool.cmd, <<"tools", toolName, "cmd">>,
                                  policyManager).errors)
     \o (IF "input" \notin DOMAIN tool
         THEN << ConfigError(<<"tools", toolName, "input">>,
                             "Tool input schema is required") >>
         ELSE validateToolInputSchema(tool.input, <<"tools", toolName, "input">>,
                                      policyManager))]

RECURSIVE validateToolsFrom(_, _, _)
validateToolsFrom(tools, policyManager, i) ==
  IF i > Len(tools) THEN << >>
  ELSE validateTool(tools[i].name, tools[i].tool, policyManager).errors
       \o validateToolsFrom(tools, policyManager, i + 1)

LoadThrew(error, errors) ==
  [set |-> TRUE, threw |-> TRUE, error |-> error, errors |-> errors]
LoadReturned == [set |-> TRUE, threw |-> FALSE, error |-> "", errors |-> << >>]

\* validateConfig from the policy manager on: errors are those of the tools
validateConfigTools(tools, policyManager) ==
  IF tools = << >>
  THEN LoadThrew("Configuration validation failed",
                 << ConfigError(<<"tools">>, "At least one tool must be defined") >>)
  ELSE IF \E i \in DOMAIN tools :
            validateTool(tools[i].name, tools[i].tool, policyManager).thrown
       THEN LoadThrew("Unclosed tag", << >>)
       ELSE IF validateToolsFrom(tools, policyManager, 1) # << >>
            THEN LoadThrew("Configuration validation failed",
                           validateToolsFrom(tools, policyManager, 1))
            ELSE LoadReturned

validateConfig(table, security, tools) ==
  IF security.defined /\ validateSecurityConfig(security.block) # << >>
  THEN LoadThrew("Configuration validation failed",
                 validateSecurityConfig(security.block))
  ELSE validateConfigTools(tools,
         IF security.defined THEN fromConfig(table, security.block)
         ELSE constructPolicy(table, "moderate", << >>))

\* loadConfig(configPath, options): document is what the path holds ("missing":
\* no file; "invalid": text that is not YAML; "empty": a document without
\* content, which yaml.load returns as undefined; "mapping": a configuration)
loadConfig(table, call) ==
  CASE call.document = "missing" ->
         IF call.allowMissingFile THEN LoadReturned
         ELSE LoadThrew("Configuration file not found", << >>)
    [] call.document = "invalid" ->
         LoadThrew("Invalid YAML syntax in config file", << >>)
    [] call.document = "empty" ->
         LoadThrew("TypeError", << >>)
    [] OTHER ->
         IF call.validateSchema
         THEN validateConfig(table, call.security, call.tools)
         ELSE LoadReturned

(***************************************************************************)
(* SpecLoad: one call of loadConfig                                        *)
(***************************************************************************)
SecurityBlock(block) == [defined |-> TRUE, block |-> block]
SecurityBlocks ==
  { NoSecurity, SecurityBlock(<< >>), SecurityBlock([level |-> "strict"]),
    SecurityBlock([level |-> "permissive"]), SecurityBlock([level |-> "bogus"]),
    SecurityBlock([allowUnsafe |-> TRUE]),
    SecurityBlock([level |-> "permissive", allowUnsafe |-> FALSE]),
    SecurityBlock([level |-> "bogus", defaultSecurityType |-> "html"]),
    SecurityBlock([defaultSecurityType |-> "text", maxInputLength |-> -1]) }

InputSchema(type, security) ==
  [type |-> type,
   properties |-> << [name |-> "x", type |-> "string", security |-> security] >>]
DefaultCmd(command) == << [platform |-> "default", command |-> command] >>

ToolDefs ==
  { [description |-> "A test tool", cmd |-> DefaultCmd(<<"e","c","h","o"," ","{","{","x","}","}">>),
     input |-> InputSchema("object", "")],
    [description |-> "A test tool", cmd |-> DefaultCmd(<<"e","c","h","o"," ","{","{","x","}","}">>),
     input |-> InputSchema("object", "unsafe")],
    [description |-> "A test tool", cmd |-> DefaultCmd(<<"e","c","h","o"," ","{","{","x","}","}">>),
     input |-> InputSchema("object", "bogus")],
    [cmd |-> DefaultCmd(<<"e","c","h","o"," ","{","{","x","}","}">>)],
    [description |-> "A test tool", cmd |-> DefaultCmd(<<"e","c","h","o"," ","{","{","x">>),
     input |-> InputSchema("object", "unsafe")],
    [description |-> "A test tool",
     cmd |-> << [platform |-> "win", command |-> << >>],
                [platform |-> "default", command |-> <<"r","m"," ","-","r","f"," ","/">>] >>,
     input |-> InputSchema("string", "command")] }

ToolLists ==
  { << >> }
    \cup { << [name |-> "t1", tool |-> t] >> : t \in ToolDefs }
    \cup { << [name |-> "t1", tool |-> t], [name |-> "t2", tool |-> u] >> :
             t \in ToolDefs, u \in ToolDefs }

LoadCalls ==
  { [document |-> "mapping", allowMissingFile |-> FALSE, validateSchema |-> v,
     security |-> sec, tools |-> tools] :
      v \in BOOLEAN, sec \in SecurityBlocks, tools \in ToolLists }
    \cup { [NoLoadCall EXCEPT !.document = d, !.allowMissingFile = a] :
             d \in {"missing", "invalid", "empty"}, a \in BOOLEAN }

LoadConfig ==
  /\ ~loadResult.set
  /\ loadResult' = loadConfig(baselines, loadCall)
  /\ UNCHANGED <<validators, policy, inv, child, sanCall, sanResult, renderCall,
                 renderResult, polVars, loadCall>>

InitLoad ==
  /\ policy = SECURITY_POLICIES("moderate")
  /\ inv = NoInvocation
  /\ child = NoChild
  /\ sanCall = NoSanCall
  /\ sanResult = NoSanResult
  /\ renderCall = NoRenderCall
  /\ renderResult = NoRenderResult
  /\ PolicyIdle
  /\ loadCall \in LoadCalls
  /\ loadResult = NoLoadResult

NextLoad == LoadConfig

SpecLoad == InitLoad /\ [][NextLoad]_vars

(***************************************************************************)
(* SpecContext: a manager, the validator a caller builds from its policy,  *)
(* later updates of the policy and renders through the secure context      *)
(* { validator, policyManager }                                            *)
(***************************************************************************)
ContextLevels == {"moderate", "permissive"}
ContextManagers == {1}
ContextUpdates == { [allowedCommands |-> << <<"l","s">> >>], [allowUnsafe |-> TRUE] }
ContextTemplates == { <<"{","{","c","o","m","m","a","n","d","}","}"," ","-","l","a">> }
ContextValues == { JsStr(<<"g","i","t">>), JsStr(<<"l","s">>) }
ContextSecurityTypes == {"command", "unsafe"}

\* new SecuritySanitizer(policyManager.getPolicy().allowedCommands,
\*                       policyManager.isUnsafeAllowed()); new InputValidator(sanitizer)
NewValidator(m) ==
  /\ managers[m].built
  /\ validators' = [validators EXCEPT ![m] =
       [built |-> TRUE,
        sanitizer |-> NewSecuritySanitizer(getPolicy(managers[m].policy).allowedCommands,
                                           isUnsafeAllowed(managers[m].policy))]]
  /\ UNCHANGED <<loadVars, polVars, policy, inv, child, sanCall, sanResult,
                 renderCall, renderResult>>

\* renderSecureTemplate(template, context, { validator, policyManager }, inputSchema)
\* with the validator built for manager m; the call records the manager's
\* policy as it is when the render runs
RenderWith(m, template, name, value, security) ==
  /\ managers[m].built
  /\ validators[m].built
  /\ renderCall' = [op |-> "renderSecureTemplate", template |-> template,
                    context |-> (name :> value),
                    inputSchema |-> SchemaFor(name, security),
                    secureContext |-> [validator |-> validators[m].sanitizer,
                                       policyManager |-> managers[m].policy]]
  /\ renderResult' = [set |-> TRUE] @@
       renderSecureTemplate(template, (name :> value),
                            [validator |-> validators[m].sanitizer,
                             policyManager |-> managers[m].policy],
                            SchemaFor(name, security))
  /\ UNCHANGED <<validators, loadVars, polVars, policy, inv, child, sanCall, sanResult>>

NextContext ==
  \/ \E m \in ContextManagers, level \in ContextLevels :
       ~managers[m].built /\ Constructor(m, level, << >>)
  \/ \E m \in ContextManagers : NewValidator(m)
  \/ \E m \in ContextManagers, updates \in ContextUpdates : UpdatePolicy(m, updates)
  \/ \E m \in ContextManagers, template \in ContextTemplates, value \in ContextValues,
        security \in ContextSecurityTypes :
       RenderWith(m, template, <<"c","o","m","m","a","n","d">>, value, security)

SpecContext == InitManagers /\ [][NextContext]_vars

(***************************************************************************)
(* Properties of the executors (Spec)                                      *)
(***************************************************************************)
\* C1: every command the CallTool handler spawns is the string
\* renderSecureTemplate returns for the call's arguments, the tool's input
\* schema and the policy in force: no spawn of a command rendered from
\* unsanitized arguments
C1_CallToolSpawnsSecureRender ==
  (inv.handler = "CallTool" /\ child.spawned) =>
    Returned(child.command)
      = renderSecureTemplate(inv.template, inv.context, SecureContextOf(policy),
                             inv.inputSchema)

\* C2: in an invocation of executeSecureShellCommand a child is spawned only
\* when renderSecureTemplate has returned, with the string it returned; when
\* the render threw, no child exists and the promise is resolved (it is never
\* rejected) with success = false and exitCode = 1
C2_SpawnOnlyAfterRender ==
  inv.handler = "executeSecureShellCommand" =>
    /\ inv.status \in {"pending", "resolved"}
    /\ child.spawned => (inv.rendered.ok /\ child.command = inv.rendered.value)
    /\ ~inv.rendered.ok =>
         /\ ~child.spawned
         /\ inv.status = "resolved"
         /\ inv.result.set /\ ~inv.result.success /\ inv.result.exitCode = 1
\* an invocation whose render threw
C2_RenderThrew ==
  /\ inv.handler = "executeSecureShellCommand"
  /\ inv.template # <<>> /\ ~inv.rendered.ok
  /\ inv.status = "resolved" /\ ~child.spawned

(***************************************************************************)
(* Properties of renderSecureTemplate (SpecRender)                         *)
(***************************************************************************)
RenderPolicy == renderCall.secureContext.policyManager
\* the validation results of the call's context
RenderValidation ==
  validateInput(renderCall.secureContext.validator, renderCall.context,
                extractValidationRules(renderCall.inputSchema))
HasErrors(validationResults) ==
  \E k \in DOMAIN validationResults : ~validationResults[k].valid
HasWarnings(validationResults) ==
  \E k \in DOMAIN validationResults : validationResults[k].warnings # <<>>
SanitizedContext(validationResults) ==
  [k \in DOMAIN validationResults |-> validationResults[k].sanitizedValue]
\* the substitution of the sanitized values into the call's template
RenderSubstitution ==
  MustacheRender(renderCall.template, SanitizedContext(RenderValidation))

\* C3: a string renderSecureTemplate returns is not blocked and its template
\* is not blocked, under the policy of the call; when the template or the
\* substituted template is blocked the call throws
C3_ReturnedStringNotBlocked ==
  renderResult.set =>
    /\ renderResult.ok =>
         /\ ~isPatternBlocked(RenderPolicy, renderResult.value)
         /\ ~isPatternBlocked(RenderPolicy, renderCall.template)
    /\ isPatternBlocked(RenderPolicy, renderCall.template) => ~renderResult.ok
    /\ (RenderSubstitution.ok /\ isPatternBlocked(RenderPolicy, RenderSubstitution.out))
         => ~renderResult.ok
\* a string is returned under a policy that blocks patterns, for a value given
C3_StringReturned ==
  /\ renderResult.set /\ renderResult.ok
  /\ RenderPolicy.blockedPatterns # <<>>
  /\ \E k \in DOMAIN renderCall.context : ~renderCall.context[k].null

\* the program name of a command value
ProgramName(value) == SplitWhitespace(Trim(value))[1]
\* the program is outside the non-empty allowlist or is a destructive one
ProgramRejected(program, allowedCommands) ==
  /\ program # <<>>
  /\ \/ allowedCommands # {} /\ program \notin allowedCommands
     \/ toLowerCase(program) \in dangerousCommands
\* some value of the call is classified command and its program is rejected
RejectedCommandGiven ==
  \E k \in DOMAIN renderCall.context \cap DOMAIN renderCall.inputSchema.properties :
    /\ extractValidationRules(renderCall.inputSchema)[k].securityType = "command"
    /\ ~renderCall.context[k].null
    /\ ProgramRejected(ProgramName(renderCall.context[k].str),
                       renderCall.secureContext.validator.allowedCommands)

\* C4: when a value classified command names a program outside the non-empty
\* allowlist, or a destructive program, renderSecureTemplate throws, under
\* every policy
C4_RejectedCommandThrows ==
  (renderResult.set /\ RejectedCommandGiven) => ~renderResult.ok

\* C5 as the specification states it: a blocked template makes the render
\* throw the template-blocked error, for every map of input values
C5_BlockedTemplateSameFailure ==
  (renderResult.set /\ isPatternBlocked(RenderPolicy, renderCall.template)) =>
    (~renderResult.ok /\ renderResult.error = "Template contains blocked patterns")
\* C5, amended: a blocked template makes the render throw for every map of
\* input values; the error is the template-blocked one when the values give
\* no validation error and no warning treated as an error, and the validation
\* error or the warnings error, which are checked first, otherwise
C5_BlockedTemplateThrows ==
  (renderResult.set /\ isPatternBlocked(RenderPolicy, renderCall.template)) =>
    /\ ~renderResult.ok
    /\ renderResult.error =
         IF HasErrors(RenderValidation) THEN "Template validation failed"
         ELSE IF HasWarnings(RenderValidation) /\ RenderPolicy.failOnWarnings
              THEN "Template validation warnings treated as errors"
              ELSE "Template contains blocked patterns"
\* a blocked template with a value that validates gives the template-blocked error
C5_TemplateBlockedReported ==
  /\ renderResult.set /\ isPatternBlocked(RenderPolicy, renderCall.template)
  /\ \E k \in DOMAIN renderCall.context : ~renderCall.context[k].null
  /\ renderResult.error = "Template contains blocked patterns"

\* the failure of the substitution step or of the check of its output
SubstitutionFailure(policyManager, r) ==
  IF ~r.ok THEN "Unclosed tag"
  ELSE IF isPatternBlocked(policyManager, r.out)
       THEN "Rendered command contains blocked patterns"
       ELSE ""
\* the earliest failure in the order validation errors, warnings treated as
\* errors, blocked template, substitution, blocked output; "" when none
FirstFailure(policyManager, template, validationResults) ==
  IF HasErrors(validationResults) THEN "Template validation failed"
  ELSE IF HasWarnings(validationResults) /\ policyManager.failOnWarnings
  THEN "Template validation warnings treated as errors"
  ELSE IF isPatternBlocked(policyManager, template)
  THEN "Template contains blocked patterns"
  ELSE SubstitutionFailure(policyManager,
         MustacheRender(template, SanitizedContext(validationResults)))

\* C6: the failure renderSecureTemplate reports is the earliest one in the
\* order validation errors, warnings treated as errors (when failOnWarnings),
\* blocked template, substitution, blocked output; it returns when none holds
C6_EarliestFailureReported ==
  renderResult.set =>
    /\ renderResult.error = FirstFailure(RenderPolicy, renderCall.template, RenderValidation)
    /\ renderResult.ok <=> renderResult.error = ""
\* a validation error and a blocked template at once: the error is reported
C6_SeveralFailuresAtOnce ==
  /\ renderResult.set
  /\ HasErrors(RenderValidation)
  /\ isPatternBlocked(RenderPolicy, renderCall.template)
  /\ renderResult.error = "Template validation failed"

\* C7: when the sanitization kept non-empty values and produced warnings, the
\* render fails for them exactly when failOnWarnings is set, then with the
\* warnings error; the property may or may not be declared in the schema
C7_WarningsFailOnlyWhenConfigured ==
  (/\ renderResult.set
   /\ HasWarnings(RenderValidation)
   /\ \A k \in DOMAIN RenderValidation : RenderValidation[k].sanitizedValue # <<>>) =>
    IF RenderPolicy.failOnWarnings
    THEN ~renderResult.ok
         /\ renderResult.error = "Template validation warnings treated as errors"
    ELSE renderResult.error \notin
           {"Template validation failed",
            "Template validation warnings treated as errors"}

(***************************************************************************)
(* Properties of the validator and the sanitizer (SpecSanitize)            *)
(***************************************************************************)
\* C8: a ValidationResult of validateInput, for a property with or without a
\* rule, is invalid exactly when it has errors; its errors are at most the
\* entry 'Input failed security validation', present only when the sanitized
\* value is empty and there are no warnings; a non-empty sanitized value is valid
C8_ValidIffNoErrors ==
  (sanCall.op = "validateInput" /\ sanResult.set) =>
    /\ sanResult.valid <=> sanResult.errors = <<>>
    /\ sanResult.errors \in {<<>>, <<"Input failed security validation">>}
    /\ sanResult.errors # <<>> => (sanResult.value = <<>> /\ sanResult.warnings = <<>>)
    /\ sanResult.value # <<>> => sanResult.valid

\* s without its surrounding shell quotes
Unquoted(s) ==
  IF Len(s) >= 2 /\ s[1] = "'" /\ s[Len(s)] = "'" THEN SubSeq(s, 2, Len(s) - 1) ELSE s
StartsAbsolute(s) ==
  (s # <<>> /\ s[1] = "/") \/ (Len(s) >= 2 /\ s[1] \in LetterChars /\ s[2] = ":")

\* C9: the filepath value of sanitize holds no ".." and, without its shell
\* quotes, begins with no "/" and no drive-letter prefix
C9_FilePathConfined ==
  (sanCall.op = "sanitize" /\ sanCall.securityType = "filepath" /\ sanResult.set) =>
    /\ ~Includes(sanResult.value, <<".", ".">>)
    /\ ~StartsAbsolute(Unquoted(sanResult.value))

\* the characters a POSIX shell gives a meaning outside quotes
ShellMetaChars ==
  {";", "&", "|", "<", ">", "(", ")", "$", Backtick, "\\", "*", "?", "[", "]",
   "{", "}", "~", "#", "!"}
\* a POSIX shell's reading of s: the number of words, whether a metacharacter
\* stands outside quoting, whether a quote is left open.  mode is "plain",
\* "single" or "double"; inWord says a word is being read
RECURSIVE ShellScan(_, _, _, _, _)
ShellScan(s, mode, inWord, words, meta) ==
  IF s = <<>>
  THEN [words |-> words + (IF inWord THEN 1 ELSE 0), meta |-> meta,
        open |-> mode # "plain"]
  ELSE IF mode = "single"
  THEN ShellScan(Tail(s), IF s[1] = "'" THEN "plain" ELSE "single", TRUE, words, meta)
  ELSE IF mode = "double"
  THEN ShellScan(Tail(s), IF s[1] = "\"" THEN "plain" ELSE "double", TRUE, words,
                 meta \/ s[1] \in {"$", Backtick, "\\"})
  ELSE IF s[1] \in WhitespaceChars
  THEN ShellScan(Tail(s), "plain", FALSE, words + (IF inWord THEN 1 ELSE 0), meta)
  ELSE ShellScan(Tail(s),
                 IF s[1] = "'" THEN "single" ELSE IF s[1] = "\"" THEN "double" ELSE "plain",
                 TRUE, words, meta \/ s[1] \in ShellMetaChars)
ShellWords(s) == ShellScan(s, "plain", FALSE, 0, FALSE)

\* C10: for every input and every SecurityType other than unsafe the value of
\* sanitize is exactly one POSIX shell word, with no metacharacter outside quoting
C10_OneShellWord ==
  (sanCall.op = "sanitize" /\ sanCall.securityType # "unsafe"
   /\ ~sanCall.value.null /\ sanResult.set) =>
    ShellWords(sanResult.value) = [words |-> 1, meta |-> FALSE, open |-> FALSE]

\* C11: the text value of sanitize holds none of the characters ; & | and
\* backtick, and neither of the sequences "$(" and "${"
C11_TextHasNoOperators ==
  (sanCall.op = "sanitize" /\ sanCall.securityType = "text" /\ sanResult.set) =>
    /\ \A i \in 1..Len(sanResult.value) :
         sanResult.value[i] \notin {";", "&", "|", Backtick}
    /\ ~Includes(sanResult.value, <<"$", "(">>)
    /\ ~Includes(sanResult.value, <<"$", "{">>)

(***************************************************************************)
(* Further properties of renderSecureTemplate (SpecRender)                 *)
(***************************************************************************)
\* the template with each marker {{name}} replaced by view[name] as it is
RECURSIVE SubstituteMarkers(_, _)
SubstituteMarkers(template, view) ==
  LET open == IndexOf(template, <<"{","{">>, 1)
      close == IndexOf(template, <<"}","}">>, open + 2)
  IN IF open = 0 \/ close = 0 THEN template
     ELSE SubSeq(template, 1, open - 1)
          \o lookup(view, Trim(SubSeq(template, open + 2, close - 1)))
          \o SubstituteMarkers(SubSeq(template, close + 2, Len(template)), view)

\* C12: a returned command is its template with each escaped marker {{name}}
\* replaced by exactly the sanitized value of the property
C12_MarkersReplacedBySanitizedValues ==
  (renderResult.set /\ renderResult.ok
   /\ ~Includes(renderCall.template, <<"{","{","{">>)) =>
    renderResult.value
      = SubstituteMarkers(renderCall.template, SanitizedContext(RenderValidation))

\* the end-to-end example: echo {{message}} with message = 'hello; rm -rf /',
\* the property classified text
InjectionExample ==
  /\ renderCall.template = <<"e","c","h","o"," ","{","{","m","e","s","s","a","g","e","}","}">>
  /\ renderCall.context = (<<"m","e","s","s","a","g","e">> :> JsStr(<<"h","e","l","l","o",";"," ","r","m"," ","-","r","f"," ","/">>))
  /\ renderCall.inputSchema = SchemaFor(<<"m","e","s","s","a","g","e">>, "text")

\* C13 as the specification states it: under the unmodified moderate policy
\* the example succeeds, its output holds 'hello' and does not hold '; rm'
C13_InjectionExampleUnderModerate ==
  (renderResult.set /\ InjectionExample
   /\ RenderPolicy = SECURITY_POLICIES("moderate")) =>
    /\ renderResult.ok
    /\ Includes(renderResult.value, <<"h","e","l","l","o">>)
    /\ ~Includes(renderResult.value, <<";"," ","r","m">>)
\* C13, amended: under a policy with no blocked patterns the example succeeds,
\* its output holds 'hello' and does not hold '; rm'; under the unmodified
\* moderate policy the render throws, because the rendered command still
\* holds the blocked pattern 'rm -rf'
C13_InjectionExample ==
  (renderResult.set /\ InjectionExample) =>
    /\ RenderPolicy.blockedPatterns = <<>> =>
         /\ renderResult.ok
         /\ Includes(renderResult.value, <<"h","e","l","l","o">>)
         /\ ~Includes(renderResult.value, <<";"," ","r","m">>)
    /\ RenderPolicy = SECURITY_POLICIES("moderate") =>
         /\ ~renderResult.ok
         /\ renderResult.error = "Rendered command contains blocked patterns"
\* the example rendered under the permissive policy without blocked patterns
C13_ExampleRendered ==
  /\ renderResult.set /\ InjectionExample
  /\ RenderPolicy.blockedPatterns = <<>>
  /\ renderResult.ok

(***************************************************************************)
(* Further properties of the executors (Spec)                              *)
(***************************************************************************)
\* the child failed to spawn, was ended by a signal after the executor or the
\* timeout killed it, or exited with a non-zero code
ExecutionFailed ==
  \/ child.errored
  \/ child.closed /\ child.closeCode = ExitNull /\ child.killed
  \/ child.closed /\ ~child.closeCode.null /\ child.closeCode.n # 0

\* C14: spawn failure, non-zero exit, timeout kill and output-overflow kill
\* are each resolved by executeSecureShellCommand as a CommandResult with
\* success = false and a non-zero exitCode
C14_FailuresReportedAsFailures ==
  (inv.handler = "executeSecureShellCommand" /\ inv.status = "resolved"
   /\ child.spawned /\ ExecutionFailed) =>
    (inv.result.set /\ ~inv.result.success /\ inv.result.exitCode # 0)

\* C15: an execution that reached spawn and whose child has closed has
\* emitted exactly one audit record when audit logging is enabled, and none
\* when it is disabled, whatever the order of the child's events
C15_OneAuditRecord ==
  (inv.handler = "executeSecureShellCommand" /\ child.spawned) =>
    /\ inv.audits <= 1
    /\ ~isAuditLoggingEnabled(policy) => inv.audits = 0
    /\ (child.closed /\ isAuditLoggingEnabled(policy)) => inv.audits = 1

\* C16: while a secure command runs, the child has been sent the termination
\* signal whenever its accumulated stdout is longer than policy.maxInputLength,
\* and a child the timeout has not killed is killed only in that case
C16_KilledWhenOutputExceeds ==
  (inv.handler = "executeSecureShellCommand" /\ child.spawned) =>
    /\ child.stdoutLen > policy.maxInputLength => child.killed
    /\ (child.killed /\ ~child.timedOut) => child.stdoutLen > policy.maxInputLength
\* a running child killed for its output alone
C16_KilledForOutput ==
  /\ inv.handler = "executeSecureShellCommand" /\ child.spawned /\ ~child.closed
  /\ child.stdoutLen > policy.maxInputLength
  /\ child.killed /\ ~child.timedOut
\* a child that wrote output up to the bound and was not killed
C16_NotKilledAtBound ==
  /\ inv.handler = "executeSecureShellCommand" /\ child.spawned
  /\ child.stdoutLen = policy.maxInputLength /\ ~child.killed

(***************************************************************************)
(* Properties of the policy queries (SpecPolicy)                           *)
(***************************************************************************)
OnAllowList(p, cmd) ==
  p.allowedCommands = << >> \/ \E i \in DOMAIN p.allowedCommands : p.allowedCommands[i] = cmd

\* C17: isCommandAllowed(cmd) is true exactly when the allow-list is empty or
\* holds cmd itself, and no blocked pattern matches cmd; the strict baseline
\* rejects 'git', the moderate baseline accepts it, and the permissive baseline
\* accepts every command that no blocked pattern matches.
C17_CommandAllowedIffListedAndUnblocked ==
  (polCall.op = "isCommandAllowed" /\ polResult.set) =>
    /\ polResult.value
         = (OnAllowList(polCall.policy, polCall.input)
              /\ ~isPatternBlocked(polCall.policy, polCall.input))
    /\ (polCall.policy = SECURITY_POLICIES("strict") /\ polCall.input = <<"g","i","t">>)
         => ~polResult.value
    /\ (polCall.policy = SECURITY_POLICIES("moderate") /\ polCall.input = <<"g","i","t">>)
         => polResult.value
    /\ polCall.policy = SECURITY_POLICIES("permissive")
         => (polResult.value = ~isPatternBlocked(polCall.policy, polCall.input))

\* a listed command is refused because a blocked pattern matches it
C17_ListedCommandBlocked ==
  /\ polCall.op = "isCommandAllowed"
  /\ polResult.set
  /\ polCall.policy.allowedCommands # << >>
  /\ OnAllowList(polCall.policy, polCall.input)
  /\ isPatternBlocked(polCall.policy, polCall.input)
  /\ ~polResult.value

toUpperCaseChar(c) ==
  IF \E i \in DOMAIN LowerLetters : LowerLetters[i] = c
  THEN UpperLetters[CHOOSE i \in DOMAIN LowerLetters : LowerLetters[i] = c]
  ELSE c
toUpperCase(s) == [i \in 1..Len(s) |-> toUpperCaseChar(s[i])]

\* the characters with a meaning of their own in a regular expression
RegExpSpecialChars ==
  {"\\", "^", "$", ".", "|", "?", "*", "+", "(", ")", "[", "]", "{", "}"}
LiteralPattern(pattern) ==
  \A i \in DOMAIN pattern : pattern[i] \notin RegExpSpecialChars

\* an entry matches: a literal one as a substring whatever the letter case, a
\* compiling one as a case-insensitive regular expression, one that does not
\* compile as a substring whatever the letter case
EntryMatches(pattern, text) ==
  IF LiteralPattern(pattern) \/ ~RegExpCompile(pattern).valid
  THEN Includes(toLowerCase(text), toLowerCase(pattern))
  ELSE RegExpTest(RegExpCompile(pattern), text)

\* C18: isPatternBlocked(text) is true exactly when some blockedPatterns entry
\* matches text (case-insensitive regular expression if the entry compiles,
\* case-insensitive substring if not); when every entry is literal, changing
\* the letter case of text does not change the result.
C18_BlockedIffSomeEntryMatches ==
  (polCall.op = "isPatternBlocked" /\ polResult.set) =>
    /\ polResult.value
         = (\E i \in DOMAIN polCall.policy.blockedPatterns :
              EntryMatches(polCall.policy.blockedPatterns[i], polCall.input))
    /\ (\A i \in DOMAIN polCall.policy.blockedPatterns :
          LiteralPattern(polCall.policy.blockedPatterns[i]))
         => /\ polResult.value
                 = isPatternBlocked(polCall.policy, toUpperCase(polCall.input))
            /\ polResult.value
                 = isPatternBlocked(polCall.policy, toLowerCase(polCall.input))

\* a text is blocked by a literal entry it holds in another letter case only
C18_BlockedInOtherCase ==
  /\ polCall.op = "isPatternBlocked"
  /\ polResult.set
  /\ polResult.value
  /\ \A i \in DOMAIN polCall.policy.blockedPatterns :
       /\ LiteralPattern(polCall.policy.blockedPatterns[i])
       /\ ~Includes(polCall.input, polCall.policy.blockedPatterns[i])

\* the location a path names: its normalization without the trailing
\* separator, the working directory being the empty relative location
Location(path) ==
  IF normalize(path) \in { <<".">>, <<".","/">> } THEN << >>
  ELSE StripTrailingSlashes(normalize(path))
EscapesUpwards(location) == location = <<".",".">> \/ StartsWith(location, <<".",".","/">>)

\* C19: where './' is the only allowed entry, isPathAllowed rejects a
\* candidate that normalizes to a location above the working directory, such
\* as './a/../../etc', although it starts with the entry textually.
C19_EscapingPathRejected ==
  (/\ polCall.op = "isPathAllowed"
   /\ polResult.set
   /\ polCall.policy.allowedPaths = << <<".","/">> >>
   /\ EscapesUpwards(Location(polCall.input))) => ~polResult.value

(***************************************************************************)
(* Properties of the policy managers (SpecManagers)                        *)
(***************************************************************************)
\* the level a constructor or fromConfig call builds from, and the fields
\* its overrides name
BuiltFromLevel(call) ==
  IF call.op = "constructor" THEN call.level
  ELSE IF "level" \in DOMAIN call.overrides THEN call.overrides.level
  ELSE "moderate"
NamedFields(call) ==
  IF call.op = "fromConfig" THEN DOMAIN call.overrides \ {"level"}
  ELSE DOMAIN call.overrides

\* C20: a policy built from a level equals the level's built-in baseline in
\* every field the overrides do not name; updatePolicy(updates) sets the
\* fields of updates and leaves every other field of the manager's policy as
\* it was; no call changes another manager's policy or the built-in baselines,
\* and getPolicy changes nothing.
C20_OnlyNamedFieldsChange ==
  [][ /\ baselines' = BuiltInPolicies
      /\ \A m \in Managers : m # polCall'.manager => managers'[m] = managers[m]
      /\ polCall'.op \in {"constructor", "fromConfig"} =>
           /\ managers'[polCall'.manager].built
           /\ DOMAIN managers'[polCall'.manager].policy
                = DOMAIN BuiltInPolicies[BuiltFromLevel(polCall')]
           /\ \A f \in DOMAIN managers'[polCall'.manager].policy \ NamedFields(polCall') :
                managers'[polCall'.manager].policy[f]
                  = BuiltInPolicies[BuiltFromLevel(polCall')][f]
      /\ polCall'.op = "updatePolicy" =>
           \A f \in DOMAIN managers[polCall'.manager].policy :
             managers'[polCall'.manager].policy[f]
               = IF f \in DOMAIN polCall'.overrides THEN polCall'.overrides[f]
                 ELSE managers[polCall'.manager].policy[f]
      /\ polCall'.op = "getPolicy" =>
           /\ managers' = managers
           /\ polResult'.value = managers[polCall'.manager].policy
    ]_vars

\* a manager is updated that still holds an earlier override in a field the
\* update does not name, while the other manager holds a different policy
C20_UpdatedAfterOverride ==
  /\ polCall.op = "updatePolicy"
  /\ \A m \in Managers : managers[m].built
  /\ managers[1].policy # managers[2].policy
  /\ \E f \in DOMAIN managers[polCall.manager].policy \ DOMAIN polCall.overrides :
       managers[polCall.manager].policy[f]
         # BuiltInPolicies[managers[polCall.manager].policy.level][f]

(***************************************************************************)
(* Properties of fromConfig (SpecFromConfig)                               *)
(***************************************************************************)
LevelRecognized(config) ==
  "level" \in DOMAIN config /\ config.level \in SecurityLevels

\* C21: for a raw configuration that is absent, has no level or has a level
\* other than strict, moderate and permissive, fromConfig yields a policy
\* whose level is moderate and whose fields, except the overridden ones, are
\* those of the moderate baseline.
C21_UnrecognizedLevelIsModerate ==
  (polCall.op = "fromConfig" /\ ~LevelRecognized(polCall.overrides)) =>
    /\ "level" \in DOMAIN managers[polCall.manager].policy
    /\ managers[polCall.manager].policy.level = "moderate"
    /\ \A f \in DOMAIN BuiltInPolicies["moderate"] \ DOMAIN polCall.overrides :
         /\ f \in DOMAIN managers[polCall.manager].policy
         /\ managers[polCall.manager].policy[f] = BuiltInPolicies["moderate"][f]

(***************************************************************************)
(* Properties of loadConfig (SpecLoad)                                     *)
(***************************************************************************)
\* the load validated a configuration
Validated == loadResult.set /\ loadCall.document = "mapping" /\ loadCall.validateSchema

\* every command template of the configuration parses
TemplatesParse(tools) ==
  \A i \in DOMAIN tools :
    "cmd" \in DOMAIN tools[i].tool =>
      \A j \in DOMAIN tools[i].tool.cmd : MustacheParses(tools[i].tool.cmd[j].command)

\* the level the policy is resolved from and its allowUnsafe
ResolvedLevel(security) ==
  IF security.defined /\ "level" \in DOMAIN security.block /\ security.block.level # ""
  THEN security.block.level ELSE "moderate"
ResolvedAllowUnsafe(security) ==
  IF security.defined /\ "allowUnsafe" \in DOMAIN security.block
  THEN security.block.allowUnsafe
  ELSE BuiltInPolicies[ResolvedLevel(security)].allowUnsafe

\* the properties of the tools: [tool, name, security]
AnnotatedProperties(tools) ==
  UNION { { [tool |-> tools[i].name, name |-> tools[i].tool.input.properties[j].name,
             security |-> tools[i].tool.input.properties[j].security] :
              j \in DOMAIN tools[i].tool.input.properties } :
          i \in { k \in DOMAIN tools : "input" \in DOMAIN tools[k].tool } }

SecurityPath(p) == <<"tools", p.tool, "input", "properties", p.name, "security">>

\* the fields in error, by the kinds of error of the configuration guide
OffendingSecurityFields(security) ==
  IF ~security.defined THEN {}
  ELSE { <<"security", f>> : f \in
           { g \in {"level", "defaultSecurityType"} \cap DOMAIN security.block :
               /\ security.block[g] # ""
               /\ security.block[g] \notin
                    (IF g = "level" THEN SecurityLevels ELSE SecurityTypes) } }
OffendingToolFields(tools) ==
  { <<"tools", tools[i].name, f>> :
      <<i, f>> \in { x \in (DOMAIN tools) \X {"description", "cmd", "input"} :
                       x[2] \notin DOMAIN tools[x[1]].tool } }
OffendingAnnotations(security, tools) ==
  { SecurityPath(p) : p \in
      { q \in AnnotatedProperties(tools) :
          /\ q.security # ""
          /\ \/ q.security \notin SecurityTypes
             \/ /\ q.security = "unsafe"
                /\ ResolvedLevel(security) \in SecurityLevels
                /\ ~ResolvedAllowUnsafe(security) } }
OffendingFields(call) ==
  OffendingSecurityFields(call.security) \cup OffendingToolFields(call.tools)
    \cup OffendingAnnotations(call.security, call.tools)

ReportedFields == { loadResult.errors[i].field : i \in DOMAIN loadResult.errors }

\* C22: a validated configuration with config errors (invalid security level
\* or default security type, invalid security annotation, unsafe without
\* allowUnsafe, missing tool field) whose command templates parse fails with
\* the one combined error, and that error lists every offending field, those
\* of the security block and those of the tools together.
C22_CombinedErrorListsEveryField ==
  (Validated /\ TemplatesParse(loadCall.tools) /\ OffendingFields(loadCall) # {}) =>
    /\ loadResult.threw
    /\ loadResult.error = "Configuration validation failed"
    /\ OffendingFields(loadCall) \subseteq ReportedFields

\* the properties annotated unsafe, and the errors reported for annotations the
\* policy does not allow
UnsafeProperties(tools) == { p \in AnnotatedProperties(tools) : p.security = "unsafe" }
NotAllowedFields ==
  { loadResult.errors[i].field :
      i \in { j \in DOMAIN loadResult.errors :
                loadResult.errors[j].message
                  = "Security type not allowed by current security policy" } }
\* the unsafe annotation is refused: the policy resolves and has allowUnsafe off
UnsafeRefused(call) ==
  /\ UnsafeProperties(call.tools) # {}
  /\ ResolvedLevel(call.security) \in SecurityLevels
  /\ ~ResolvedAllowUnsafe(call.security)

C24_LongInputNeverRendered ==
  (inv.handler = "executeSecureShellCommand" /\ (inv.rendered.ok \/ child.spawned)) =>
    \A k \in DOMAIN inv.context :
      ~inv.context[k].null => validateInputLength(policy, inv.context[k].str)

(***************************************************************************)
(* Further properties of the sanitizer (SpecSanitize)                      *)
(***************************************************************************)
\* the value of a second safe sanitization of the recorded value
Resanitized ==
  sanitize(sanCall.sanitizer, JsStr(Unquoted(sanResult.value)), "safe").value

SafeCallDone ==
  sanCall.op = "sanitize" /\ sanCall.securityType = "safe" /\ sanResult.set

C26_CommandValueHasNoOperators ==
  (sanCall.op = "sanitize" /\ sanCall.securityType = "command" /\ sanResult.set
   /\ ~sanCall.value.null) =>
    IF ProgramName(sanCall.value.str) = << >>
         \/ ProgramRejected(ProgramName(sanCall.value.str), sanCall.sanitizer.allowedCommands)
    THEN sanResult.value = << >> /\ ~sanResult.safe
    ELSE /\ StartsWith(sanResult.value, ProgramName(sanCall.value.str))
         /\ \A i \in DOMAIN sanResult.value : sanResult.value[i] \notin DangerousChars

(***************************************************************************)
(* Further properties of the policy queries (SpecPolicy)                   *)
(***************************************************************************)
\* C27: under each built-in level's unmodified baseline, isCommandAllowed
\* accepts every program name of the baseline's own allowedCommands.
C27_BaselineAcceptsItsAllowList ==
  (/\ polCall.op = "isCommandAllowed"
   /\ polResult.set
   /\ \E level \in SecurityLevels : polCall.policy = SECURITY_POLICIES(level)
   /\ \E i \in DOMAIN polCall.policy.allowedCommands :
        polCall.policy.allowedCommands[i] = polCall.input) => polResult.value

C29_SanitizerFollowsPolicy ==
  (renderCall.op = "renderSecureTemplate" /\ renderResult.set) =>
    /\ renderCall.secureContext.validator
         = SecureContextOf(renderCall.secureContext.policyManager).validator
    /\ renderResult
         = [set |-> TRUE] @@
           renderSecureTemplate(renderCall.template, renderCall.context,
                                SecureContextOf(renderCall.secureContext.policyManager),
                                renderCall.inputSchema)

(***************************************************************************)
(* Termination of the secure executor (LiveSpec)                           *)
(***************************************************************************)
SecurePending == inv.handler = "executeSecureShellCommand" /\ inv.status = "pending"
SecureResolved ==
  inv.handler = "executeSecureShellCommand" /\ inv.status = "resolved" /\ inv.result.set

\* C30: given that the spawned child emits close or error in the end, every
\* invocation of executeSecureShellCommand resolves with a CommandResult; once
\* resolved, its result is not changed by a later event of the same child, so
\* of error and close the first one gives the result.
C30_ResolvesOnceWithFirstResult ==
  /\ SecurePending ~> SecureResolved
  /\ [][(SecureResolved /\ inv'.status = "resolved") => inv'.result = inv.result]_vars

\* error and close were both emitted and the result is the one of the error
C30_ErrorThenClose ==
  /\ SecureResolved
  /\ child.errored /\ child.closed
  /\ child.closeCode = Exit(0)
  /\ inv.resolveCalls = 2
  /\ inv.result.exitCode = 1

====
